---------------------------- MODULE Spec2Model ----------------------------
(***************************************************************************)
(* Model of the airbnb-assistant core: the Spanish date-expression parser  *)
(* (app.py, UltraRobustDateParser), the multi-intent classifier (app.py,   *)
(* classify_intents_multi), the busy-interval merge and availability query *)
(* (ical_utils.py), the availability evaluator (app.py,                    *)
(* check_availability_robust), the draft validator (generator.py,          *)
(* _validate_multi_intent_response), generate_with_llm from the output of  *)
(* the model call on, and the request pipeline of app.py.                  *)
(*                                                                         *)
(* Representation.                                                         *)
(*  - A calendar date is its proleptic Gregorian ordinal, as Python's      *)
(*    date.toordinal() numbers it (0001-01-01 is 1).                       *)
(*  - A timestamp of a calendar event is a day ordinal too: events are     *)
(*    date-valued (midnight local), the form Airbnb feeds use.             *)
(*  - A guest message is the sequence of its whitespace-separated words.   *)
(*    A word is a record [k, w, a, b]: k = "w" a plain word w, k = "n" a   *)
(*    run of digits of value a, k = "dm" a numeric date a/b.  The regular  *)
(*    expressions of the parser and classifier are matched word by word,   *)
(*    leftmost match first, as re.search does.                             *)
(*  - A draft or a fact of the validator is a sequence of one-character    *)
(*    strings, so that Python's substring test is computed as such.        *)
(***************************************************************************)
EXTENDS Integers, Sequences, FiniteSets, TLC

VARIABLES pc,          \* "idle" before the operation of the specification ran, "done" after;
                       \* the request pipeline passes through its steps in between
          today,       \* reference date (ordinal)
          day, month,  \* arguments of infer_year_and_month
          inferred,    \* its result, [year, month]
          text,        \* the guest message
          parsed,      \* what parse_all gave: [raised, ranges, consulted]
          has_dates,   \* the classifier's flag: the parser found a range
          intents,     \* the set of labels classify_intents_multi gave
          HAS_RECURRING, \* ical_utils: recurring_ical_events could be imported
          start_date, end_date, \* the request of is_available
          fetch,       \* what fetch_calendar did: "not called", "ok" or the error it raised
          cal,         \* the VEVENT components of the calendar fetched
          busy,        \* the merged busy intervals expand_busy_intervals gave
          ical_result, \* what is_available gave
          property_id, \* "" when absent
          ical_url,    \* "" when the property has no calendar
          result,      \* what check_availability_robust gave
          draft,       \* the draft of the answer
          extra_facts, \* the facts given with it
          validation,  \* what _validate_multi_intent_response gave
          raw_output,  \* what the model call gave
          response,    \* what generate_with_llm gave
          use_llm,     \* the "Usar LLM" checkbox
          availability_result, \* the request's verdict: <<>> for None, else <<result>>
          validation_warning,  \* the request's warning is set
          output       \* the draft the request shows

parser_vars == <<today, day, month, inferred, text, parsed>>
classifier_vars == <<has_dates, intents>>
ical_vars == <<HAS_RECURRING, start_date, end_date, fetch, cal, busy, ical_result>>

evaluator_vars == <<property_id, ical_url, result>>

validator_vars == <<draft, extra_facts, validation>>

generator_vars == <<raw_output, response>>

pipeline_vars == <<use_llm, availability_result, validation_warning, output>>

vars == <<pc, parser_vars, classifier_vars, ical_vars, evaluator_vars, validator_vars,
          generator_vars, pipeline_vars>>

-----------------------------------------------------------------------------
(* datetime.date *)

\* Optional[int] month: None
None == 0

IsLeap(y) == (y % 4 = 0) /\ ((y % 100 # 0) \/ (y % 400 = 0))

DaysInMonth(y, m) ==
    IF m = 2 THEN (IF IsLeap(y) THEN 29 ELSE 28)
    ELSE IF m \in {4, 6, 9, 11} THEN 30 ELSE 31

DaysBeforeYear(y) ==
    (y - 1) * 365 + ((y - 1) \div 4) - ((y - 1) \div 100) + ((y - 1) \div 400)

DaysBeforeMonth(y, m) ==
    <<0, 31, 59, 90, 120, 151, 181, 212, 243, 273, 304, 334>>[m]
        + (IF m > 2 /\ IsLeap(y) THEN 1 ELSE 0)

\* date(y, m, d) raises ValueError unless this holds
ValidDate(y, m, d) ==
    /\ m \in 1..12
    /\ d >= 1
    /\ d <= DaysInMonth(y, m)

\* date(y, m, d), for a valid date
Date(y, m, d) == DaysBeforeYear(y) + DaysBeforeMonth(y, m) + d

YearOf(o) ==
    CHOOSE y \in (o \div 366)..((o \div 365) + 1) :
        DaysBeforeYear(y) < o /\ o <= DaysBeforeYear(y + 1)

MonthOf(o) ==
    LET y == YearOf(o)
        n == o - DaysBeforeYear(y)
    IN  CHOOSE m \in 1..12 :
            DaysBeforeMonth(y, m) < n /\ n <= DaysBeforeMonth(y, m) + DaysInMonth(y, m)

DayOf(o) ==
    LET y == YearOf(o)
    IN  o - DaysBeforeYear(y) - DaysBeforeMonth(y, MonthOf(o))

\* date.weekday(): Monday is 0
Weekday(o) == (o + 6) % 7

-----------------------------------------------------------------------------
(* UltraRobustDateParser.infer_year_and_month *)

\* the year rolls over when the month/day lies before today's
RollsOver_month_only(d, m, t) == m < MonthOf(t)

RollsOver(d, m, t) ==
    \/ m < MonthOf(t)
    \/ (m = MonthOf(t) /\ d < DayOf(t))

infer_year_and_month(d, mo, t) ==
    LET m == IF mo = None THEN MonthOf(t) ELSE mo
    IN  [year  |-> IF RollsOver(d, m, t) THEN YearOf(t) + 1 ELSE YearOf(t),
         month |-> m]

-----------------------------------------------------------------------------
(* Words of a message *)

W(s) == [k |-> "w", w |-> s, a |-> 0, b |-> 0]
Num(n) == [k |-> "n", w |-> "", a |-> n, b |-> 0]
DM(d, m) == [k |-> "dm", w |-> "", a |-> d, b |-> m]
NoTok == [k |-> "none", w |-> "", a |-> 0, b |-> 0]

Tok(t, i) == IF i \in 1..Len(t) THEN t[i] ELSE NoTok

IsWord(x, s) == x.k = "w" /\ x.w = s

IsOneOf(x, S) == x.k = "w" /\ x.w \in S

\* (\d{1,2}) delimited by white space: a number of one or two digits
IsDay(x) == x.k = "n" /\ x.a < 100

\* the text (\w+) captures from a word: only a plain word can name a month
NameOf(x) == IF x.k = "w" THEN x.w ELSE ""

\* least index of 1..Len(t) at which the pattern P matches, 0 when none does
\* (re.search: the leftmost match)
First(t, P(_, _)) ==
    LET S == {i \in 1..Len(t) : P(t, i)}
    IN  IF S = {} THEN 0 ELSE CHOOSE i \in S : \A j \in S : i <= j

-----------------------------------------------------------------------------
(* UltraRobustDateParser *)

WEEKDAY_NAMES == <<"lunes", "martes", "miercoles", "jueves", "viernes", "sabado", "domingo">>

MONTH_NAMES(w) ==
    CASE w \in {"enero", "ene"} -> 1
      [] w \in {"febrero", "feb"} -> 2
      [] w \in {"marzo", "mar"} -> 3
      [] w \in {"abril", "abr"} -> 4
      [] w \in {"mayo", "may"} -> 5
      [] w \in {"junio", "jun"} -> 6
      [] w \in {"julio", "jul"} -> 7
      [] w \in {"agosto", "ago"} -> 8
      [] w \in {"septiembre", "setiembre", "sep"} -> 9
      [] w \in {"octubre", "oct"} -> 10
      [] w \in {"noviembre", "nov"} -> 11
      [] w \in {"diciembre", "dic"} -> 12
      [] OTHER -> None

\* lower-casing and the replacement of accented vowels and of the n with tilde,
\* on the words the messages are drawn from
NormalizeWord(w) ==
    CASE w = "Sábado" -> "sabado"
      [] w = "sábado" -> "sabado"
      [] w = "miércoles" -> "miercoles"
      [] w = "próximo" -> "proximo"
      [] w = "está" -> "esta"
      [] w = "Del" -> "del"
      [] w = "El" -> "el"
      [] w = "Desde" -> "desde"
      [] w = "Febrero" -> "febrero"
      [] w = "WiFi" -> "wifi"
      [] w = "cancelación" -> "cancelacion"
      [] w = "calefacción" -> "calefaccion"
      [] w = "cuánto" -> "cuanto"
      [] w = "dónde" -> "donde"
      [] w = "qué" -> "que"
      [] OTHER -> w

normalize(t) ==
    [i \in 1..Len(t) |-> IF t[i].k = "w" THEN [t[i] EXCEPT !.w = NormalizeWord(@)] ELSE t[i]]

\* largest ordinal of a date: date(9999, 12, 31).toordinal()
MaxOrdinal == 3652059

\* what one sub-pattern gives: a range, nothing, or an exception that is not caught
Hit(s, e) == [st |-> "hit", start |-> s, end |-> e]
Miss == [st |-> "miss", start |-> 0, end |-> 0]
Raise == [st |-> "raise", start |-> 0, end |-> 0]

\* index of the word after an optional "de" that a word follows: (?:de\s+)?(\w+)
AfterDe(t, k) == IF IsWord(Tok(t, k), "de") /\ k + 1 <= Len(t) THEN k + 1 ELSE k

\* re.search(r'(\d+)\s*noche(s)?', t): the digits right before the first "noche"
NocheAt(t, i) == Tok(t, i).k \in {"n", "dm"} /\ IsOneOf(Tok(t, i + 1), {"noche", "noches"})

Nights(t) ==
    LET i == First(t, NocheAt)
    IN  IF i = 0 THEN 1
        ELSE IF t[i].k = "n" THEN t[i].a ELSE t[i].b

\* pattern_desde: (?:desde|a\s*partir\s*de)(?:\s+el)?\s+(\d{1,2})\s+(?:de\s+)?(\w+)
DesdeHead(t, i) ==
    IF IsWord(Tok(t, i), "desde") THEN 1
    ELSE IF IsWord(Tok(t, i), "a") /\ IsWord(Tok(t, i + 1), "partir") /\ IsWord(Tok(t, i + 2), "de")
         THEN 3 ELSE 0

DesdeDayAt(t, i) ==
    LET j == i + DesdeHead(t, i)
    IN  IF IsWord(Tok(t, j), "el") /\ IsDay(Tok(t, j + 1)) THEN j + 1 ELSE j

DesdeAt(t, i) ==
    /\ DesdeHead(t, i) > 0
    /\ IsDay(Tok(t, DesdeDayAt(t, i)))
    /\ DesdeDayAt(t, i) + 1 <= Len(t)

\* checkout = checkin + timedelta(days=nights): OverflowError past date.max
Checkout(checkin, nights) ==
    IF checkin + nights > MaxOrdinal THEN Raise ELSE Hit(checkin, checkin + nights)

TryDesde(t, td) ==
    LET i == First(t, DesdeAt)
    IN  IF i = 0 THEN Miss
        ELSE LET j == DesdeDayAt(t, i)
                 d == t[j].a
                 m == MONTH_NAMES(NameOf(Tok(t, AfterDe(t, j + 1))))
             IN  IF m = None THEN Miss
                 ELSE LET ym == infer_year_and_month(d, m, td)
                      IN  IF ~ValidDate(ym.year, ym.month, d) THEN Miss
                          ELSE Checkout(Date(ym.year, ym.month, d), Nights(t))

\* pattern_el: (?:el|disponible\s+el?)\s+(\d{1,2})\s+(?:de\s+)?(\w+)
ElDayAt(t, i) ==
    IF IsWord(Tok(t, i), "el") THEN i + 1
    ELSE IF IsWord(Tok(t, i), "disponible") /\ IsOneOf(Tok(t, i + 1), {"el", "e"}) THEN i + 2
    ELSE 0

ElAt(t, i) ==
    /\ ElDayAt(t, i) > 0
    /\ IsDay(Tok(t, ElDayAt(t, i)))
    /\ ElDayAt(t, i) + 1 <= Len(t)

TryEl(t, td) ==
    LET i == First(t, ElAt)
    IN  IF i = 0 THEN Miss
        ELSE LET j == ElDayAt(t, i)
                 d == t[j].a
                 m == MONTH_NAMES(NameOf(Tok(t, AfterDe(t, j + 1))))
             IN  IF m = None THEN Miss
                 ELSE LET ym == infer_year_and_month(d, m, td)
                      IN  IF ~ValidDate(ym.year, ym.month, d) THEN Miss
                          ELSE Hit(Date(ym.year, ym.month, d), Date(ym.year, ym.month, d) + 1)

\* pattern_del_al: (?:del|desde)\s+(\d{1,2})\s+(?:al|hasta)\s+(?:el\s+)?(\d{1,2})\s*(?:de\s+)?(\w+)?\b
\* the second (\d{1,2}) need not end its word: it takes the day of a numeric date
\* (and ends at the "/") or the first two digits of a longer number
IsDay2(x) == x.k \in {"n", "dm"}

RECURSIVE LeadingTwo(_)
LeadingTwo(n) == IF n < 100 THEN n ELSE LeadingTwo(n \div 10)

DelAlDay2At(t, i) ==
    IF IsWord(Tok(t, i + 3), "el") /\ IsDay2(Tok(t, i + 4)) THEN i + 4 ELSE i + 3

DelAlAt(t, i) ==
    /\ IsOneOf(Tok(t, i), {"del", "desde"})
    /\ IsDay(Tok(t, i + 1))
    /\ IsOneOf(Tok(t, i + 2), {"al", "hasta"})
    /\ IsDay2(Tok(t, DelAlDay2At(t, i)))

\* cls.MONTH_NAMES.get(month_name) if month_name else today.month; None is then
\* replaced by today's month in infer_year_and_month
DelAlMonth(t, j) ==
    IF ~IsDay(t[j]) THEN None
    ELSE MONTH_NAMES(NameOf(Tok(t, AfterDe(t, j + 1))))

SameMonthRange_unordered(y, m, d1, d2) ==
    IF ~ValidDate(y, m, d1) \/ ~ValidDate(y, m, d2) THEN Miss
    ELSE Hit(Date(y, m, d1), Date(y, m, d2))

\* checkin and checkout in the same month and year; kept when checkout > checkin
SameMonthRange(y, m, d1, d2) ==
    IF ~ValidDate(y, m, d1) \/ ~ValidDate(y, m, d2) THEN Miss
    ELSE IF Date(y, m, d2) > Date(y, m, d1) THEN Hit(Date(y, m, d1), Date(y, m, d2))
    ELSE Miss

TryDelAl(t, td) ==
    LET i == First(t, DelAlAt)
    IN  IF i = 0 THEN Miss
        ELSE LET j == DelAlDay2At(t, i)
                 ym == infer_year_and_month(t[i + 1].a, DelAlMonth(t, j), td)
             IN  SameMonthRange(ym.year, ym.month, t[i + 1].a, LeadingTwo(t[j].a))

\* pattern_ir_del: ir\s+del\s+(\d{1,2})\s+(?:de\s+)?(\w+)\s+al\s+(\d{1,2})\b
\* (\d{1,2})\b: a number of one or two digits, or the day of a numeric date
IsDayB(x) == IsDay(x) \/ x.k = "dm"

IrDelNameAt(t, i) ==
    IF /\ IsWord(Tok(t, i + 3), "de")
       /\ IsWord(Tok(t, i + 5), "al")
       /\ IsDayB(Tok(t, i + 6))
    THEN i + 4 ELSE i + 3

IrDelAt(t, i) ==
    /\ IsWord(Tok(t, i), "ir")
    /\ IsWord(Tok(t, i + 1), "del")
    /\ IsDay(Tok(t, i + 2))
    /\ IrDelNameAt(t, i) <= Len(t)
    /\ IsWord(Tok(t, IrDelNameAt(t, i) + 1), "al")
    /\ IsDayB(Tok(t, IrDelNameAt(t, i) + 2))

TryIrDel(t, td) ==
    LET i == First(t, IrDelAt)
    IN  IF i = 0 THEN Miss
        ELSE LET n == IrDelNameAt(t, i)
                 m == MONTH_NAMES(NameOf(t[n]))
             IN  IF m = None THEN Miss
                 ELSE LET ym == infer_year_and_month(t[i + 2].a, m, td)
                      IN  SameMonthRange(ym.year, ym.month, t[i + 2].a, t[n + 2].a)

\* pattern_semana: (?:primer|primera)\s+semana\s+(?:de\s+)?(\w+)
SemanaAt(t, i) ==
    /\ IsOneOf(Tok(t, i), {"primer", "primera"})
    /\ IsWord(Tok(t, i + 1), "semana")
    /\ i + 2 <= Len(t)

TrySemana(t, td) ==
    LET i == First(t, SemanaAt)
    IN  IF i = 0 THEN Miss
        ELSE LET m == MONTH_NAMES(NameOf(Tok(t, AfterDe(t, i + 2))))
                 y == IF m >= MonthOf(td) THEN YearOf(td) ELSE YearOf(td) + 1
             IN  IF m = None THEN Miss
                 ELSE Hit(Date(y, m, 1), Date(y, m, 7))

\* a family's result: a list of ranges, or the exception that left it
Ranges(r) ==
    [raised |-> r.st = "raise",
     ranges |-> IF r.st = "hit" THEN <<[start |-> r.start, end |-> r.end]>> ELSE <<>>]

\* the sub-patterns in their order: the first that gives a range returns it
FirstOf(rs) ==
    LET S == {i \in 1..Len(rs) : rs[i].st # "miss"}
    IN  IF S = {} THEN Miss ELSE rs[CHOOSE i \in S : \A j \in S : i <= j]

parse_explicit_dates(text0, td) ==
    LET t == normalize(text0)
    IN  Ranges(FirstOf(<<TryDesde(t, td), TryEl(t, td), TryDelAl(t, td),
                         TryIrDel(t, td), TrySemana(t, td)>>))

\* \b(\d{1,2})[/\-](\d{1,2})\b, every match, in the order of the text
parse_numeric_dates(text0, td) ==
    LET t == normalize(text0)
        Found(x) ==
            /\ x.k = "dm"
            /\ x.a \in 1..31
            /\ x.b \in 1..12
            /\ ValidDate(infer_year_and_month(x.a, x.b, td).year, x.b, x.a)
        f == SelectSeq(t, Found)
        D(i) == Date(infer_year_and_month(f[i].a, f[i].b, td).year, f[i].b, f[i].a)
        found_dates == {D(i) : i \in 1..Len(f)}
        lo == CHOOSE d \in found_dates : \A e \in found_dates : d <= e
        hi == CHOOSE d \in found_dates : \A e \in found_dates : d >= e
    IN  [raised |-> FALSE,
         ranges |-> IF Len(f) = 0 THEN <<>>
                    ELSE IF Len(f) = 1 THEN <<[start |-> lo, end |-> lo + 1]>>
                    ELSE <<[start |-> lo, end |-> hi]>>]

DaysAhead_today(wd, td) == (wd - Weekday(td)) % 7

\* days to the next day of the week wd, never 0
DaysAhead(wd, td) ==
    IF (wd - Weekday(td)) % 7 = 0 THEN 7 ELSE (wd - Weekday(td)) % 7

FinAt(t, i) == IsOneOf(Tok(t, i), {"fin", "finde"})

SemanaQueVieneAt(t, i) ==
    IsWord(Tok(t, i), "semana") /\ IsWord(Tok(t, i + 1), "que") /\ IsWord(Tok(t, i + 2), "viene")

WeekdaysQueViene(t) ==
    {n \in 1..7 : \E i \in 1..Len(t) :
        /\ IsWord(t[i], WEEKDAY_NAMES[n])
        /\ IsWord(Tok(t, i + 1), "que")
        /\ IsWord(Tok(t, i + 2), "viene")}

parse_relative_dates(text0, td) ==
    LET t == normalize(text0)
        wds == WeekdaysQueViene(t)
        wd == (CHOOSE n \in wds : \A k \in wds : n <= k) - 1
        One(checkin, n) == <<[start |-> checkin, end |-> checkin + n]>>
    IN  [raised |-> FALSE,
         ranges |-> IF First(t, FinAt) > 0 THEN One(td + DaysAhead(4, td), 2)
                    ELSE IF First(t, SemanaQueVieneAt) > 0 THEN One(td + DaysAhead(7, td), 2)
                    ELSE IF wds # {} THEN One(td + DaysAhead(wd, td), 1)
                    ELSE <<>>]

\* the families in the order parse_all calls them; a family is called only when
\* those before it gave nothing
Family(name, text0, td) ==
    CASE name = "explicit" -> parse_explicit_dates(text0, td)
      [] name = "numeric" -> parse_numeric_dates(text0, td)
      [] name = "relative" -> parse_relative_dates(text0, td)

FamilyOrder_numeric_first == <<"numeric", "explicit", "relative">>

FamilyOrder == <<"explicit", "numeric", "relative">>

RECURSIVE TryFamilies(_, _, _, _)
TryFamilies(order, text0, td, consulted) ==
    IF order = <<>> THEN [raised |-> FALSE, ranges |-> <<>>, consulted |-> consulted]
    ELSE LET r == Family(Head(order), text0, td)
             c == Append(consulted, Head(order))
         IN  IF r.raised THEN [raised |-> TRUE, ranges |-> <<>>, consulted |-> c]
             ELSE IF r.ranges # <<>> THEN [raised |-> FALSE, ranges |-> r.ranges, consulted |-> c]
             ELSE TryFamilies(Tail(order), text0, td, c)

NotParsed == [raised |-> FALSE, ranges |-> <<>>, consulted |-> <<>>]

parse_all(text0, td) == TryFamilies(FamilyOrder, text0, td, <<>>)

-----------------------------------------------------------------------------
(* classify_intents_multi *)

HasWord(t, S) == \E i \in 1..Len(t) : IsOneOf(t[i], S)

\* the word a followed by one of the words of S
HasPair(t, a, S) == \E i \in 1..Len(t) : IsWord(t[i], a) /\ IsOneOf(Tok(t, i + 1), S)

IntentLabels ==
    {"availability", "pricing", "amenities", "checkin", "checkout",
     "recommendations", "policy", "other"}

amenities_patterns(t) ==
    \/ HasWord(t, {"gym", "gimnasio", "wifi", "toalla", "toallas", "sabana", "sabanas",
                   "cocina", "pileta", "piscina", "calefaccion", "estacionamiento",
                   "garage", "amenities", "servicios", "equipamiento",
                   "aireacondicionado", "airacondicionado"})
    \/ HasPair(t, "wi", {"fi"})
    \/ HasPair(t, "aire", {"acondicionado"})
    \/ HasPair(t, "air", {"acondicionado"})

availability_patterns(t) ==
    \/ HasWord(t, {"disponible", "disponibilidad", "reserv", "reservar", "reserva",
                   "reservas", "libre"})
    \/ HasPair(t, "hay", {"lugar"})
    \/ HasPair(t, "puedo", {"reservar", "ir"})
    \/ HasPair(t, "esta", {"disponible", "libre"})

pricing_patterns(t) ==
    \/ HasWord(t, {"precio", "precios", "tarifa", "tarifas", "costo", "costos", "valor"})
    \/ HasPair(t, "cuanto", {"cuesta", "sale", "es"})

checkin_pattern(t) ==
    HasWord(t, {"checkin", "ingreso", "llegada"}) \/ HasPair(t, "check", {"in"})

checkout_pattern(t) ==
    HasWord(t, {"checkout", "salida", "egreso"}) \/ HasPair(t, "check", {"out"})

recommendations_pattern(t) ==
    \/ HasWord(t, {"recomendacion", "recomendaciones"})
    \/ HasPair(t, "donde", {"comer"})
    \/ HasPair(t, "que", {"hacer"})

policy_pattern(t) ==
    HasWord(t, {"cancelacion", "norma", "normas", "politica", "politicas"})

Label(cond, l) == IF cond THEN {l} ELSE {}

AvailabilityRule_no_implicit(t, hd, sofar) ==
    IF hd THEN sofar \cup Label(availability_patterns(t), "availability") ELSE sofar

AvailabilityRule_implicit_always(t, hd, sofar) ==
    IF hd THEN sofar \cup {"availability"} ELSE sofar

\* 2. availability is looked for only with dates; with dates and nothing
\* detected so far it is added implicitly
AvailabilityRule(t, hd, sofar) ==
    IF hd
    THEN LET a == sofar \cup Label(availability_patterns(t), "availability")
         IN  IF a = {} THEN {"availability"} ELSE a
    ELSE sofar

\* 3. pricing is looked for only without dates
PricingRule_with_dates(t, hd, sofar) ==
    sofar \cup Label(pricing_patterns(t), "pricing")

PricingRule(t, hd, sofar) ==
    IF ~hd THEN sofar \cup Label(pricing_patterns(t), "pricing") ELSE sofar

\* nothing detected: "other"
OtherRule_absent(sofar) == sofar

OtherRule(sofar) == IF sofar = {} THEN {"other"} ELSE sofar

classify_intents_multi(text0, hd) ==
    LET t == normalize(text0)
        i1 == Label(amenities_patterns(t), "amenities")
        i2 == AvailabilityRule(t, hd, i1)
        i3 == PricingRule(t, hd, i2)
        i4 == i3 \cup Label(checkin_pattern(t), "checkin")
                 \cup Label(checkout_pattern(t), "checkout")
                 \cup Label(recommendations_pattern(t), "recommendations")
                 \cup Label(policy_pattern(t), "policy")
    IN  OtherRule(i4)

-----------------------------------------------------------------------------
(* ical_utils *)

\* a VEVENT component: dtstart and dtend may be absent
VEvent(s, e, sum) == [has_start |-> TRUE, dtstart |-> s, has_end |-> TRUE, dtend |-> e, summary |-> sum]
VEventNoEnd(s, sum) == [has_start |-> TRUE, dtstart |-> s, has_end |-> FALSE, dtend |-> 0, summary |-> sum]
VEventNoStart(sum) == [has_start |-> FALSE, dtstart |-> 0, has_end |-> FALSE, dtend |-> 0, summary |-> sum]

\* fetch_calendar: the calendar, or a RuntimeError with one of two texts
FetchErrors == {"Error descargando calendario", "Error parseando calendario"}

\* the (start_dt, end_dt, summary) of a component; an absent dtend is one day
\* after the start
BusyOf(ev) ==
    [start |-> ev.dtstart,
     end |-> IF ev.has_end THEN ev.dtend ELSE ev.dtstart + 1,
     name |-> ev.summary]

\* expand_busy_intervals_simple: the components with a dtstart that overlap
\* [start, end)
expand_busy_intervals_simple(c, start, end) ==
    LET Keep(ev) == ev.has_start /\ BusyOf(ev).start < end /\ BusyOf(ev).end > start
        kept == SelectSeq(c, Keep)
    IN  [i \in 1..Len(kept) |-> BusyOf(kept[i])]

\* expand_busy_intervals_with_recurring: recurring_ical_events.of(cal).between(start, end)
\* gives the occurrences in the window; those without a dtstart are skipped
expand_busy_intervals_with_recurring(c, start, end) ==
    LET Between(ev) == ~ev.has_start \/ (BusyOf(ev).start < end /\ BusyOf(ev).end > start)
        Keep(ev) == ev.has_start
        kept == SelectSeq(SelectSeq(c, Between), Keep)
    IN  [i \in 1..Len(kept) |-> BusyOf(kept[i])]

\* busy.sort(key=lambda x: x[0]): stable, by start
RECURSIVE InsertByStart(_, _)
InsertByStart(sorted, x) ==
    IF sorted = <<>> THEN <<x>>
    ELSE IF sorted[Len(sorted)].start <= x.start THEN Append(sorted, x)
    ELSE Append(InsertByStart(SubSeq(sorted, 1, Len(sorted) - 1), x), sorted[Len(sorted)])

RECURSIVE SortByStart(_)
SortByStart(b) ==
    IF b = <<>> THEN <<>>
    ELSE InsertByStart(SortByStart(SubSeq(b, 1, Len(b) - 1)), b[Len(b)])

Max_second(a, b) == b

Max(a, b) == IF a >= b THEN a ELSE b

\* an event joins the last merged interval when it starts at or before its end
Joins_never(s, last_e) == FALSE

Joins_strict(s, last_e) == s < last_e

Joins_always(s, last_e) == TRUE

Joins(s, last_e) == s <= last_e

RECURSIVE Merge(_, _)
Merge(b, merged) ==
    IF b = <<>> THEN merged
    ELSE LET x == Head(b)
             n == Len(merged)
         IN  IF n = 0 THEN Merge(Tail(b), <<[start |-> x.start, end |-> x.end, names |-> {x.name}]>>)
             ELSE IF Joins(x.start, merged[n].end)
                  THEN Merge(Tail(b),
                             [merged EXCEPT ![n] = [start |-> merged[n].start,
                                                    end |-> Max(merged[n].end, x.end),
                                                    names |-> merged[n].names \cup {x.name}]])
                  ELSE Merge(Tail(b),
                             Append(merged, [start |-> x.start, end |-> x.end, names |-> {x.name}]))

\* the list that is merged: what the expansion in use gives for the window
Expanded(hr, c, start, end) ==
    IF hr THEN expand_busy_intervals_with_recurring(c, start, end)
    ELSE expand_busy_intervals_simple(c, start, end)

expand_busy_intervals(hr, c, start, end) ==
    Merge(SortByStart(Expanded(hr, c, start, end)), <<>>)

\* half-open overlap of the request [start_dt, end_dt) with a busy interval
Overlaps_closed(start_dt, end_dt, b) == start_dt <= b.end /\ b.start <= end_dt

Overlaps_start_only(start_dt, end_dt, b) == start_dt < b.end

Overlaps(start_dt, end_dt, b) == start_dt < b.end /\ b.start < end_dt

Conflicts(start_dt, end_dt, b) ==
    LET InConflict(x) == Overlaps(start_dt, end_dt, x)
        c == SelectSeq(b, InConflict)
    IN  [i \in 1..Len(c) |-> [start |-> c[i].start, end |-> c[i].end,
                              title |-> c[i].names, nights |-> c[i].end - c[i].start]]

NoIcalResult ==
    [raised |-> FALSE, available |-> "None", conflicts |-> <<>>, error |-> "",
     total_nights |-> 0, total_events_checked |-> 0]

\* is_available(ics_url, start_date, end_date), buffer_hours = 0; f is what
\* fetch_calendar does and c the calendar it gives.  available is "True",
\* "False" or "None".
is_available(hr, f, c, sd, ed) ==
    IF ed <= sd THEN [NoIcalResult EXCEPT !.raised = TRUE, !.error = "end_date debe ser posterior a start_date"]
    ELSE IF f \in FetchErrors
         THEN [NoIcalResult EXCEPT !.error = f, !.total_nights = ed - sd]
         ELSE LET b == expand_busy_intervals(hr, c, sd - 1, ed + 1)
                  conflicts == Conflicts(sd, ed, b)
              IN  [raised |-> FALSE,
                   available |-> IF Len(conflicts) = 0 THEN "True" ELSE "False",
                   conflicts |-> conflicts,
                   error |-> "",
                   total_nights |-> ed - sd,
                   total_events_checked |-> Len(b)]

-----------------------------------------------------------------------------
(* check_availability_robust *)

\* a message: its text with the places of the values it is formatted with,
\* the property id, the dates and counts, and the text of an error
Msg(fmt, pid, args, err) == [fmt |-> fmt, pid |-> pid, args |-> args, err |-> err]

NoMessage == Msg("", "", <<>>, "")
NeedProperty == Msg("Necesito saber a que propiedad te referis.", "", <<>>, "")
CannotVerify(pid) == Msg("No puedo verificar disponibilidad de {property_id}.", pid, <<>>, "")
NeedDates == Msg("Necesito fechas de check-in y check-out.", "", <<>>, "")
CheckoutNotAfter == Msg("Check-out debe ser posterior a check-in.", "", <<>>, "")
AlreadyPassed(checkin) == Msg("La fecha {checkin} ya paso.", "", <<checkin>>, "")
Disponible(checkin, checkout, nights) ==
    Msg("DISPONIBLE del {checkin} al {checkout} ({nights} noche{s}).", "", <<checkin, checkout, nights>>, "")
NoDisponibleReserva(s, e) ==
    Msg("NO DISPONIBLE. Hay una reserva del {start} al {end}.", "", <<s, e>>, "")
NoDisponible == Msg("NO DISPONIBLE en esas fechas.", "", <<>>, "")
ErrorMessage(e) == Msg("Error: {e}", "", <<>>, e)

NoResult ==
    [raised |-> FALSE, success |-> FALSE, message |-> NoMessage,
     checkin |-> None, checkout |-> None, available |-> "None"]

\* the rejection checks, in their order; p is what parse_all gave
Rejection_calendar_first(pid, url, p, td) ==
    IF url = "" THEN "calendar"
    ELSE IF pid = "" THEN "property"
    ELSE IF p.ranges = <<>> THEN "dates"
    ELSE IF p.ranges[1].end <= p.ranges[1].start THEN "order"
    ELSE IF p.ranges[1].start < td THEN "past"
    ELSE "none"

Rejection(pid, url, p, td) ==
    IF pid = "" THEN "property"
    ELSE IF url = "" THEN "calendar"
    ELSE IF p.ranges = <<>> THEN "dates"
    ELSE IF p.ranges[1].end <= p.ranges[1].start THEN "order"
    ELSE IF p.ranges[1].start < td THEN "past"
    ELSE "none"

\* parse_all is called, outside any try, once a property and a calendar are given
ParserRaises(pid, url, p) == pid # "" /\ url # "" /\ p.raised

\* the result once is_available returned or raised (lines 373-398)
Verdict(base, ical, checkin, checkout) ==
    IF ical.raised THEN [base EXCEPT !.message = ErrorMessage(ical.error)]
    ELSE [base EXCEPT
            !.success = TRUE,
            !.available = ical.available,
            !.message =
                IF ical.available = "True"
                THEN Disponible(checkin, checkout, checkout - checkin)
                ELSE IF Len(ical.conflicts) > 0
                     THEN NoDisponibleReserva(ical.conflicts[1].start, ical.conflicts[1].end)
                     ELSE NoDisponible]

\* the function from the call of parser.parse_all on, p being what it gave
Evaluate(p, pid, url, td, hr, f, c) ==
    LET rej == Rejection(pid, url, p, td)
        dated == [NoResult EXCEPT !.checkin = p.ranges[1].start, !.checkout = p.ranges[1].end]
    IN  IF ParserRaises(pid, url, p) THEN [NoResult EXCEPT !.raised = TRUE]
        ELSE CASE rej = "property" -> [NoResult EXCEPT !.message = NeedProperty]
               [] rej = "calendar" -> [NoResult EXCEPT !.message = CannotVerify(pid)]
               [] rej = "dates" -> [NoResult EXCEPT !.message = NeedDates]
               [] rej = "order" -> [dated EXCEPT !.message = CheckoutNotAfter]
               [] rej = "past" -> [dated EXCEPT !.message = AlreadyPassed(dated.checkin)]
               [] rej = "none" ->
                    Verdict(dated, is_available(hr, f, c, dated.checkin, dated.checkout),
                            dated.checkin, dated.checkout)

\* hr, f and c: the expansion in use, what fetch_calendar does and the calendar
check_availability_robust(txt, pid, url, td, hr, f, c) ==
    Evaluate(parse_all(txt, td), pid, url, td, hr, f, c)

\* is_available, and with it fetch_calendar, is reached
ReachesCalendar(p, pid, url, td) ==
    ~ParserRaises(pid, url, p) /\ Rejection(pid, url, p, td) = "none"

-----------------------------------------------------------------------------
(* generator._validate_multi_intent_response.  A string is the sequence of *)
(* its characters, so that `in`, lower, upper, replace and strip are the   *)
(* operations on characters that Python applies.                           *)

\* the letters str.lower and str.upper change, in matching order
UpperCase ==
    <<"A", "B", "C", "D", "E", "F", "G", "H", "I", "J", "K", "L", "M", "N", "O", "P", "Q", "R",
      "S", "T", "U", "V", "W", "X", "Y", "Z", "Á", "É", "Í", "Ó", "Ú", "Ñ">>

LowerCase ==
    <<"a", "b", "c", "d", "e", "f", "g", "h", "i", "j", "k", "l", "m", "n", "o", "p", "q", "r",
      "s", "t", "u", "v", "w", "x", "y", "z", "á", "é", "í", "ó", "ú", "ñ">>

Lower(c) == IF \E i \in 1..Len(UpperCase) : UpperCase[i] = c
            THEN LowerCase[CHOOSE i \in 1..Len(UpperCase) : UpperCase[i] = c]
            ELSE c

Upper(c) == IF \E i \in 1..Len(LowerCase) : LowerCase[i] = c
            THEN UpperCase[CHOOSE i \in 1..Len(LowerCase) : LowerCase[i] = c]
            ELSE c

\* replace('á', 'a') ... replace('ú', 'u')
Unaccent(c) ==
    CASE c = "á" -> "a" [] c = "é" -> "e" [] c = "í" -> "i" [] c = "ó" -> "o" [] c = "ú" -> "u"
      [] OTHER -> c

lower(s) == [i \in 1..Len(s) |-> Lower(s[i])]

upper(s) == [i \in 1..Len(s) |-> Upper(s[i])]

\* sub in s
Contains(s, sub) == \E i \in 0..(Len(s) - Len(sub)) : SubSeq(s, i + 1, i + Len(sub)) = sub

\* s.replace(old, new), old not empty: every occurrence, left to right
RECURSIVE Replace(_, _, _)
Replace(s, old, new) ==
    IF Len(s) < Len(old) THEN s
    ELSE IF SubSeq(s, 1, Len(old)) = old
         THEN new \o Replace(SubSeq(s, Len(old) + 1, Len(s)), old, new)
         ELSE <<s[1]>> \o Replace(Tail(s), old, new)

IsSpace(c) == c \in {" ", "\n", "\t"}

\* s.strip()
RECURSIVE Strip(_)
Strip(s) ==
    IF s = <<>> THEN s
    ELSE IF IsSpace(s[1]) THEN Strip(Tail(s))
    ELSE IF IsSpace(s[Len(s)]) THEN Strip(SubSeq(s, 1, Len(s) - 1))
    ELSE s

\* sep.join(parts)
RECURSIVE Join(_, _)
Join(parts, sep) ==
    IF parts = <<>> THEN <<>>
    ELSE IF Len(parts) = 1 THEN parts[1]
    ELSE parts[1] \o sep \o Join(Tail(parts), sep)

draft_lower(draft0) == [i \in 1..Len(draft0) |-> Unaccent(Lower(draft0[i]))]

DISPONIBLE_del ==
    <<"D", "I", "S", "P", "O", "N", "I", "B", "L", "E", " ", "d", "e", "l">>

NO_DISPONIBLE ==
    <<"N", "O", " ", "D", "I", "S", "P", "O", "N", "I", "B", "L", "E">>

DISPONIBLE ==
    <<"D", "I", "S", "P", "O", "N", "I", "B", "L", "E">>

VERIFICADO_ICAL ==
    <<"[", "V", "E", "R", "I", "F", "I", "C", "A", "D", "O", "_", "I", "C", "A", "L", "]">>

\* what the draft says when it denies availability
negative_indicators ==
    {<<"n", "o", " ", "e", "s", "t", "a", " ", "d", "i", "s", "p", "o", "n", "i", "b", "l", "e">>,
     <<"n", "o", " ", "d", "i", "s", "p", "o", "n", "i", "b", "l", "e">>,
     <<"n", "o", " ", "h", "a", "y", " ", "d", "i", "s", "p", "o", "n", "i", "b", "i", "l", "i",
       "d", "a", "d">>,
     <<"o", "c", "u", "p", "a", "d", "a", "s">>,
     <<"o", "c", "u", "p", "a", "d", "a">>,
     <<"r", "e", "s", "e", "r", "v", "a", "d", "a", "s">>,
     <<"r", "e", "s", "e", "r", "v", "a", "d", "a">>,
     <<"l", "a", "m", "e", "n", "t", "o">>}

\* what the draft says when it affirms availability
positive_indicators ==
    {<<"d", "i", "s", "p", "o", "n", "i", "b", "l", "e">>,
     <<"l", "i", "b", "r", "e">>,
     <<"c", "o", "n", "f", "i", "r", "m", "o">>,
     <<"c", "o", "n", "f", "i", "r", "m", "a", "m", "o", "s">>,
     <<"e", "s", "t", "a", " ", "l", "i", "b", "r", "e">>,
     <<"h", "a", "y", " ", "l", "u", "g", "a", "r">>}

\* words of an answer about amenities
amenities_words ==
    {<<"w", "i", "f", "i">>,
     <<"g", "y", "m">>,
     <<"g", "i", "m", "n", "a", "s", "i", "o">>,
     <<"p", "i", "l", "e", "t", "a">>,
     <<"p", "i", "s", "c", "i", "n", "a">>,
     <<"t", "o", "a", "l", "l", "a", "s">>,
     <<"c", "o", "c", "i", "n", "a">>,
     <<"c", "a", "l", "e", "f", "a", "c", "c", "i">>,
     <<"a", "i", "r", "e">>}

\* words of an answer about the price
pricing_words ==
    {<<"p", "r", "e", "c", "i", "o">>,
     <<"t", "a", "r", "i", "f", "a">>,
     <<"c", "o", "s", "t", "o">>,
     <<"n", "e", "c", "e", "s", "i", "t">>,
     <<"f", "e", "c", "h", "a", "s">>,
     <<"c", "o", "t", "i", "z">>}

AnyIn(words, s) == \E w \in words : Contains(s, w)

has_available_fact(extra_facts0) ==
    \E i \in 1..Len(extra_facts0) :
        Contains(extra_facts0[i], DISPONIBLE_del) /\ ~Contains(extra_facts0[i], NO_DISPONIBLE)

has_not_available_fact(extra_facts0) ==
    \E i \in 1..Len(extra_facts0) : Contains(extra_facts0[i], NO_DISPONIBLE)

draft_says_available(d) == AnyIn(positive_indicators, d)

draft_says_not_available(d) == AnyIn(negative_indicators, d)

\* the issues of part 1: the draft against the verified facts
AvailabilityIssues(d, extra_facts0, intents0) ==
    IF extra_facts0 # <<>> /\ "availability" \in intents0
    THEN (IF /\ has_available_fact(extra_facts0)
             /\ draft_says_not_available(d)
             /\ ~draft_says_available(d)
          THEN <<"CONTRADICCION: Dice NO disponible pero el hecho dice SI">> ELSE <<>>)
         \o (IF /\ has_not_available_fact(extra_facts0)
                /\ draft_says_available(d)
                /\ ~draft_says_not_available(d)
             THEN <<"CONTRADICCION: Dice disponible pero el hecho dice NO">> ELSE <<>>)
    ELSE <<>>

\* parts 2 and 3: an intent the draft does not answer
AmenitiesIssues(d, intents0) ==
    IF "amenities" \in intents0 /\ ~AnyIn(amenities_words, d)
    THEN <<"NO RESPONDIO: Pregunta sobre amenities sin respuesta">> ELSE <<>>

PricingIssues_never(d, intents0) == <<>>

PricingIssues(d, intents0) ==
    IF "pricing" \in intents0 /\ ~AnyIn(pricing_words, d)
    THEN <<"NO RESPONDIO: Pregunta sobre precio sin respuesta">> ELSE <<>>

AvailabilityPrefix ==
    <<"R", "e", "s", "p", "e", "c", "t", "o", " ", "a", " ", "l", "a", " ", "d", "i", "s", "p",
      "o", "n", "i", "b", "i", "l", "i", "d", "a", "d", ":", " ">>

AmenitiesParagraph ==
    <<"E", "n", " ", "c", "u", "a", "n", "t", "o", " ", "a", " ", "l", "a", "s", " ", "c", "o",
      "m", "o", "d", "i", "d", "a", "d", "e", "s", " ", "d", "e", "l", " ", "l", "u", "g", "a",
      "r", ",", " ", "n", "e", "c", "e", "s", "i", "t", "o", " ", "v", "e", "r", "i", "f", "i",
      "c", "a", "r", " ", "e", "s", "a", " ", "i", "n", "f", "o", "r", "m", "a", "c", "i", "o",
      "n", " ", "e", "s", "p", "e", "c", "i", "f", "i", "c", "a", ".", " ", "T", "e", " ", "r",
      "e", "s", "p", "o", "n", "d", "o", " ", "e", "n", " ", "b", "r", "e", "v", "e", ".">>

PricingParagraph ==
    <<"P", "a", "r", "a", " ", "d", "a", "r", "t", "e", " ", "u", "n", " ", "p", "r", "e", "c",
      "i", "o", " ", "e", "x", "a", "c", "t", "o", " ", "n", "e", "c", "e", "s", "i", "t", "o",
      " ", "c", "o", "n", "f", "i", "r", "m", "a", "r", " ", "f", "e", "c", "h", "a", "s", " ",
      "y", " ", "c", "a", "n", "t", "i", "d", "a", "d", " ", "d", "e", " ", "h", "u", "e", "s",
      "p", "e", "d", "e", "s", ".", " ", "M", "e", " ", "p", "a", "s", "a", "s", " ", "e", "s",
      "o", "s", " ", "d", "a", "t", "o", "s", "?">>

Signature ==
    <<"\n", "\n", "S", "a", "l", "u", "d", "o", "s", ",", "\n", "E", "q", "u", "i", "p", "o",
      " ", "d", "e", " ", "A", "t", "e", "n", "c", "i", "o", "n">>

ParagraphBreak ==
    <<"\n", "\n">>

\* the facts with DISPONIBLE in f.upper(), in their order
avail_fact(extra_facts0) ==
    LET Is(f) == Contains(upper(f), DISPONIBLE) IN SelectSeq(extra_facts0, Is)

fact_clean(f) == Strip(Replace(f, VERIFICADO_ICAL, <<>>))

corrected_parts(extra_facts0, intents0) ==
    (IF "availability" \in intents0 /\ extra_facts0 # <<>> /\ avail_fact(extra_facts0) # <<>>
     THEN <<AvailabilityPrefix \o fact_clean(avail_fact(extra_facts0)[1])>> ELSE <<>>)
    \o (IF "amenities" \in intents0 THEN <<AmenitiesParagraph>> ELSE <<>>)
    \o (IF "pricing" \in intents0 THEN <<PricingParagraph>> ELSE <<>>)

\* (True, None)
Valid == [is_valid |-> TRUE, corrected_is_none |-> TRUE, corrected |-> <<>>]

\* (False, corrected)
Invalid(corrected) == [is_valid |-> FALSE, corrected_is_none |-> FALSE, corrected |-> corrected]

_validate_multi_intent_response(draft0, extra_facts0, intents0) ==
    IF draft0 = <<>> \/ intents0 = {} THEN Valid
    ELSE LET d == draft_lower(draft0)
             issues == AvailabilityIssues(d, extra_facts0, intents0)
                       \o AmenitiesIssues(d, intents0) \o PricingIssues(d, intents0)
         IN  IF issues = <<>> THEN Valid
             ELSE Invalid(Join(corrected_parts(extra_facts0, intents0), ParagraphBreak) \o Signature)

-----------------------------------------------------------------------------
(* generator.generate_with_llm.  raw_output is what the model call gave:   *)
(* each field may be absent; a citation is a text, a date a string.        *)

\* the draft given when the draft is blank, with the default signature
FallbackDraft ==
    <<"G", "r", "a", "c", "i", "a", "s", " ", "p", "o", "r", " ", "t", "u", " ", "c", "o", "n",
      "s", "u", "l", "t", "a", ".", " ", "E", "s", "t", "a", "m", "o", "s", " ", "r", "e", "v",
      "i", "s", "a", "n", "d", "o", " ", "t", "u", " ", "m", "e", "n", "s", "a", "j", "e", " ",
      "y", " ", "t", "e", " ", "r", "e", "s", "p", "o", "n", "d", "e", "m", "o", "s", " ", "a",
      " ", "l", "a", " ", "b", "r", "e", "v", "e", "d", "a", "d", ".", "\n", "\n", "S", "a", "l",
      "u", "d", "o", "s", ",", "\n", "E", "q", "u", "i", "p", "o", " ", "d", "e", " ", "A", "t",
      "e", "n", "c", "i", "o", "n">>

DefaultIntent ==
    <<"o", "t", "h", "e", "r">>

DefaultLanguage ==
    <<"e", "s">>

CorrectionNotice == "Respuesta corregida por inconsistencias detectadas"

\* raw_output.get(field) or default
OrDefault(given, value, default) == IF given /\ value # <<>> THEN value ELSE default

Count(s, c) == Cardinality({i \in 1..Len(s) : s[i] = c})

\* the dates kept: strings of length 10 with two dashes
valid_dates(dates) ==
    LET Is(x) == Len(x) = 10 /\ Count(x, "-") = 2 IN SelectSeq(dates, Is)

\* citations[:6]
FirstSix(citations) == SubSeq(citations, 1, IF Len(citations) < 6 THEN Len(citations) ELSE 6)

\* the draft kept when validation failed and a corrected draft was given
Superseded_kept(dr, v) == dr

Superseded(dr, v) == IF ~v.is_valid /\ v.corrected # <<>> THEN v.corrected ELSE dr

Noticed_always(citations, v) == <<CorrectionNotice>> \o citations

\* citations.insert(0, notice), in the same case
Noticed(citations, v) ==
    IF ~v.is_valid /\ v.corrected # <<>> THEN <<CorrectionNotice>> \o citations ELSE citations

NoResponse ==
    [intent |-> <<>>, dates |-> <<>>, draft |-> <<>>, citations |-> <<>>, language |-> <<>>,
     facts_provided |-> 0, intents_requested |-> {}, validation_passed |-> TRUE]

generate_with_llm(raw, extra_facts0, intents0) ==
    LET draft0 == OrDefault(raw.has_draft, raw.draft, <<>>)
        citations0 == OrDefault(raw.has_citations, raw.citations, <<>>)
        v == _validate_multi_intent_response(draft0, extra_facts0, intents0)
        draft1 == Superseded(draft0, v)
    IN  [intent |-> lower(Strip(OrDefault(raw.has_intent, raw.intent, DefaultIntent))),
         dates |-> valid_dates(OrDefault(raw.has_dates, raw.dates, <<>>)),
         draft |-> IF Strip(draft1) = <<>> THEN FallbackDraft ELSE draft1,
         citations |-> FirstSix(Noticed(citations0, v)),
         language |-> lower(Strip(OrDefault(raw.has_language, raw.language, DefaultLanguage))),
         facts_provided |-> Len(extra_facts0),
         intents_requested |-> intents0,
         validation_passed |-> v.is_valid]

-----------------------------------------------------------------------------
(* The values of the variables an operation does not use *)

NoClassifier == has_dates = FALSE /\ intents = {}

NoIcal ==
    /\ HAS_RECURRING = FALSE
    /\ start_date = 0
    /\ end_date = 0
    /\ fetch = "not called"
    /\ cal = <<>>
    /\ busy = <<>>
    /\ ical_result = NoIcalResult

NoEvaluator == property_id = "" /\ ical_url = "" /\ result = NoResult

NoValidator == draft = <<>> /\ extra_facts = <<>> /\ validation = Valid

NoRawOutput ==
    [has_draft |-> FALSE, draft |-> <<>>, has_citations |-> FALSE, citations |-> <<>>,
     has_intent |-> FALSE, intent |-> <<>>, has_dates |-> FALSE, dates |-> <<>>,
     has_language |-> FALSE, language |-> <<>>]

NoGenerator == raw_output = NoRawOutput /\ response = NoResponse

NoPipeline ==
    /\ use_llm = FALSE
    /\ availability_result = <<>>
    /\ validation_warning = FALSE
    /\ output = <<>>

-----------------------------------------------------------------------------
(* Specification of infer_year_and_month over every reference date of two  *)
(* consecutive years (2023, and 2024 which is a leap year).                *)

InferSpan == 731

InferFirst == Date(2023, 1, 1)

InferTodays == InferFirst..(InferFirst + InferSpan - 1)

InitInfer ==
    /\ pc = "idle"
    /\ today \in InferTodays
    /\ day \in 1..31
    /\ month \in {None} \cup (1..12)
    /\ inferred = [year |-> 0, month |-> 0]
    /\ text = <<>>
    /\ parsed = NotParsed
    /\ NoClassifier
    /\ NoIcal
    /\ NoEvaluator
    /\ NoValidator
    /\ NoGenerator
    /\ NoPipeline

InferYearAndMonth ==
    /\ pc = "idle"
    /\ inferred' = infer_year_and_month(day, month, today)
    /\ pc' = "done"
    /\ UNCHANGED <<today, day, month, text, parsed, classifier_vars, ical_vars, evaluator_vars, validator_vars, generator_vars, pipeline_vars>>

NextInfer == InferYearAndMonth

SpecInfer == InitInfer /\ [][NextInfer]_vars

\* C5: for every reference date today and every (day, month) that is a valid
\* calendar day in the inferred year, the date built from
\* infer_year_and_month(day, month, today) is on or after today.
C5_InferredNeverPast ==
    (pc = "done" /\ ValidDate(inferred.year, inferred.month, day))
        => Date(inferred.year, inferred.month, day) >= today

\* the year did roll over for a day of today's month before today's day
C5_Witness ==
    /\ pc = "done"
    /\ month = MonthOf(today)
    /\ day < DayOf(today)
    /\ inferred.year = YearOf(today) + 1
    /\ ValidDate(inferred.year, inferred.month, day)
-----------------------------------------------------------------------------
(* Specification of parse_all: a message of up to MaxPhrases phrases, parsed *)
(* on each reference date of a window that starts on Monday 2023-01-30.      *)

MaxPhrases == 2

TodaySpan == 14

Phrases ==
    << <<W("Desde"), W("el"), Num(5), W("de"), W("febrero")>>,
       <<W("a"), W("partir"), W("de"), W("el"), Num(31), W("de"), W("feb")>>,
       <<W("el"), Num(4), W("de"), W("febrero")>>,
       <<W("del"), Num(2), W("al"), Num(5), W("de"), W("febrero")>>,
       <<W("del"), Num(10), W("al"), Num(15)>>,
       <<W("del"), Num(5), W("al"), Num(2)>>,
       <<W("desde"), Num(2), W("hasta"), W("el"), Num(5), W("de"), W("febrero")>>,
       <<W("ir"), W("del"), Num(2), W("de"), W("febrero"), W("al"), Num(5)>>,
       <<W("primera"), W("semana"), W("de"), W("febrero")>>,
       <<W("está"), W("disponible"), W("del"), DM(2, 2), W("al"), DM(5, 2)>>,
       <<DM(2, 2)>>,
       <<DM(31, 4)>>,
       <<W("el"), W("finde")>>,
       <<W("la"), W("semana"), W("que"), W("viene")>>,
       <<W("sábado"), W("que"), W("viene")>>,
       <<Num(0), W("noches")>>,
       <<Num(3), W("noches")>>,
       <<Num(MaxOrdinal), W("noches")>>,
       <<W("hay"), W("wifi")>> >>

RECURSIVE Flatten(_)
Flatten(ps) == IF ps = <<>> THEN <<>> ELSE Head(ps) \o Flatten(Tail(ps))

PhraseSeqs(n) == UNION {[1..k -> 1..Len(Phrases)] : k \in 0..n}

Texts == {Flatten([i \in 1..Len(f) |-> Phrases[f[i]]]) : f \in PhraseSeqs(MaxPhrases)}

ParseFirst == Date(2023, 1, 30)

ParseTodays == ParseFirst..(ParseFirst + TodaySpan - 1)

InitParse ==
    /\ pc = "idle"
    /\ today \in ParseTodays
    /\ text \in Texts
    /\ parsed = NotParsed
    /\ day = 0
    /\ month = None
    /\ inferred = [year |-> 0, month |-> 0]
    /\ NoClassifier
    /\ NoIcal
    /\ NoEvaluator
    /\ NoValidator
    /\ NoGenerator
    /\ NoPipeline

ParseAll ==
    /\ pc = "idle"
    /\ parsed' = parse_all(text, today)
    /\ pc' = "done"
    /\ UNCHANGED <<today, text, day, month, inferred, classifier_vars, ical_vars, evaluator_vars, validator_vars, generator_vars, pipeline_vars>>

NextParse == ParseAll

SpecParse == InitParse /\ [][NextParse]_vars

\* C1: every interval returned by parse_all satisfies end > start, so the
\* evaluator's rejection of checkout <= checkin is never reached with an
\* interval the parser produced.
C1_EndAfterStart ==
    (pc = "done" /\ ~parsed.raised)
        => \A i \in 1..Len(parsed.ranges) : parsed.ranges[i].end > parsed.ranges[i].start

\* C7: parse_all consults the families in the order explicit, numeric,
\* relative, stops at the first that gives a range and returns exactly what
\* that family gave; it returns nothing only when all three give nothing.
C7_FirstFamilyWins ==
    (pc = "done" /\ ~parsed.raised) =>
        LET e == parse_explicit_dates(text, today).ranges
            n == parse_numeric_dates(text, today).ranges
            r == parse_relative_dates(text, today).ranges
        IN  /\ e # <<>> => (parsed.ranges = e /\ parsed.consulted = <<"explicit">>)
            /\ (e = <<>> /\ n # <<>>)
                   => (parsed.ranges = n /\ parsed.consulted = <<"explicit", "numeric">>)
            /\ (e = <<>> /\ n = <<>>)
                   => (parsed.ranges = r /\ parsed.consulted = <<"explicit", "numeric", "relative">>)
            /\ (parsed.ranges = <<>>) <=> (e = <<>> /\ n = <<>> /\ r = <<>>)

\* an explicit expression won over a numeric date and a relative expression
\* that would have given other ranges
C7_Witness ==
    /\ pc = "done"
    /\ ~parsed.raised
    /\ parsed.ranges = parse_explicit_dates(text, today).ranges
    /\ parsed.ranges # <<>>
    /\ parse_numeric_dates(text, today).ranges # <<>>
    /\ parse_numeric_dates(text, today).ranges # parsed.ranges

\* C14: for every reference date, "esta disponible del 2/2 al 5/2?" parses to
\* exactly one interval, from the next February 2 on or after today to the
\* February 5 three days after it.
C14_TwoNumericDates ==
    (pc = "done" /\ text = Phrases[10]) =>
        LET feb2 == IF Date(YearOf(today), 2, 2) >= today
                    THEN Date(YearOf(today), 2, 2)
                    ELSE Date(YearOf(today) + 1, 2, 2)
        IN  /\ ~parsed.raised
            /\ parsed.ranges = <<[start |-> feb2, end |-> feb2 + 3]>>

\* the ranges came from the relative family
FromRelative == parsed.consulted = <<"explicit", "numeric", "relative">> /\ parsed.ranges # <<>>

\* C22: a range of the relative family is alone, starts 1 to 7 days after
\* today on its target weekday and never today: Friday with two nights, to
\* Sunday, for the weekend; Monday with two nights for "semana que viene";
\* the weekday named with one night for "<weekday> que viene".
C22_RelativeStartsAhead ==
    (pc = "done" /\ FromRelative) =>
        LET t == normalize(text)
            r == parsed.ranges[1]
        IN  /\ Len(parsed.ranges) = 1
            /\ r.start - today \in 1..7
            /\ IF First(t, FinAt) > 0
               THEN Weekday(r.start) = 4 /\ r.end = r.start + 2 /\ Weekday(r.end) = 6
               ELSE IF First(t, SemanaQueVieneAt) > 0
               THEN Weekday(r.start) = 0 /\ r.end = r.start + 2
               ELSE \E n \in WeekdaysQueViene(t) :
                        Weekday(r.start) = n - 1 /\ r.end = r.start + 1

\* the weekend was asked for on a Friday: the range starts a week later
C22_Witness ==
    /\ pc = "done"
    /\ FromRelative
    /\ First(normalize(text), FinAt) > 0
    /\ Weekday(today) = 4
    /\ parsed.ranges[1].start = today + 7

\* C26: every range parse_all returns starts on today or later, so that
\* check_availability_robust, given a property, its calendar and the same
\* today, never answers that the date already passed.
C26_NeverInThePast ==
    (pc = "done" /\ ~parsed.raised) =>
        /\ \A i \in 1..Len(parsed.ranges) : parsed.ranges[i].start >= today
        /\ Rejection("RECOLETA-PATIO", "https://calendar/ical/1.ics", parsed, today) # "past"

-----------------------------------------------------------------------------
(* Specification of parse_all on the forms of the explicit family: a       *)
(* message is one expression built from days, a month name or none, and a  *)
(* count of nights or none, on reference dates around the turns of month   *)
(* and year.                                                               *)

FormDays == {1, 2, 5, 10, 15, 29, 31}

FormMonths == {"enero", "febrero", "abril", "diciembre"}

\* a count of nights; NoNights when the message has no "N noches"
NoNights == 0 - 1

FormNights == {NoNights, 0, 1, 3, MaxOrdinal}

FormTodays ==
    ParseTodays \cup {Date(2025, 1, 5), Date(2023, 4, 15), Date(2023, 12, 31), Date(2024, 2, 29)}

\* "de MES", or nothing when no month is named
DeMes(m) == IF m = "" THEN <<>> ELSE <<W("de"), W(m)>>

\* "del D1 al D2 [de MES]"
DelAlText(d1, d2, m) == <<W("del"), Num(d1), W("al"), Num(d2)>> \o DeMes(m)

\* "del D1 hasta el D2 de MES", "desde D1 hasta el D2 de MES"
HastaElText(head, d1, d2, m) == <<W(head), Num(d1), W("hasta"), W("el"), Num(d2)>> \o DeMes(m)

\* "desde [el] D de MES [N noches]", "a partir de [el] D de MES [N noches]"
DesdeText(head, el, d, m, n) ==
    head \o (IF el THEN <<W("el")>> ELSE <<>>) \o <<Num(d)>> \o DeMes(m)
         \o (IF n = NoNights THEN <<>> ELSE <<Num(n), W(IF n = 1 THEN "noche" ELSE "noches")>>)

DesdeHeads == {<<W("desde")>>, <<W("a"), W("partir"), W("de")>>}

DelAlTexts == {DelAlText(d1, d2, m) : d1 \in FormDays, d2 \in FormDays, m \in FormMonths \cup {""}}

HastaElTexts ==
    {HastaElText(h, d1, d2, m) : h \in {"del", "desde"}, d1 \in FormDays, d2 \in FormDays,
                                 m \in FormMonths}

DesdeTexts ==
    {DesdeText(h, el, d, m, n) : h \in DesdeHeads, el \in BOOLEAN, d \in FormDays,
                                 m \in FormMonths, n \in FormNights}

InitForms ==
    /\ pc = "idle"
    /\ today \in FormTodays
    /\ text \in DelAlTexts \cup HastaElTexts \cup DesdeTexts
    /\ parsed = NotParsed
    /\ day = 0
    /\ month = None
    /\ inferred = [year |-> 0, month |-> 0]
    /\ NoClassifier
    /\ NoIcal
    /\ NoEvaluator
    /\ NoValidator
    /\ NoGenerator
    /\ NoPipeline

NextForms == ParseAll

SpecForms == InitForms /\ [][NextForms]_vars

\* C23: for "del D1 al D2 [de MES]", MES being today's month when absent and
\* the year the one inferred for D1: with D2 > D1 and both days valid,
\* parse_all returns the one range from D1 to D2 of that month and year
\* ("del 10 al 15 de enero" on 2025-01-05 gives 2025-01-10 to 2025-01-15);
\* with D2 <= D1 it returns none.
C23_DelAlSameMonth ==
    pc = "done" =>
        \A d1 \in FormDays, d2 \in FormDays, m \in FormMonths \cup {""} :
            text = DelAlText(d1, d2, m) =>
                LET mo == IF m = "" THEN MonthOf(today) ELSE MONTH_NAMES(m)
                    y == IF RollsOver(d1, mo, today) THEN YearOf(today) + 1 ELSE YearOf(today)
                IN  /\ (d2 > d1 /\ ValidDate(y, mo, d1) /\ ValidDate(y, mo, d2))
                           => parsed.ranges = <<[start |-> Date(y, mo, d1), end |-> Date(y, mo, d2)]>>
                    /\ d2 <= d1 => parsed.ranges = <<>>
                    /\ (text = DelAlText(10, 15, "enero") /\ today = Date(2025, 1, 5))
                           => parsed.ranges = <<[start |-> Date(2025, 1, 10), end |-> Date(2025, 1, 15)]>>

\* "del 10 al 15 de enero" on 2025-01-05
C23_Witness ==
    /\ pc = "done"
    /\ text = DelAlText(10, 15, "enero")
    /\ today = Date(2025, 1, 5)
    /\ parsed.ranges = <<[start |-> Date(2025, 1, 10), end |-> Date(2025, 1, 15)]>>

\* C24: for "del D1 hasta el D2 de MES" and "desde D1 hasta el D2 de MES"
\* with valid days D1 < D2, parse_all returns the range from D1 to D2 of MES
\* and not the single night of D2.
C24_RangeWithArticle ==
    pc = "done" =>
        \A h \in {"del", "desde"}, d1 \in FormDays, d2 \in FormDays, m \in FormMonths :
            text = HastaElText(h, d1, d2, m) =>
                LET mo == MONTH_NAMES(m)
                    y == IF RollsOver(d1, mo, today) THEN YearOf(today) + 1 ELSE YearOf(today)
                IN  (d1 < d2 /\ ValidDate(y, mo, d1) /\ ValidDate(y, mo, d2))
                        => parsed.ranges = <<[start |-> Date(y, mo, d1), end |-> Date(y, mo, d2)]>>

\* the date a day of a month first falls on, today or later
NextOccurrence(d, mo, td) ==
    CHOOSE o \in td..(td + 8 * 366) :
        /\ DayOf(o) = d /\ MonthOf(o) = mo
        /\ \A e \in td..(o - 1) : ~(DayOf(e) = d /\ MonthOf(e) = mo)

\* C25: for "desde [el] D de MES" and "a partir de [el] D de MES", D a valid
\* day of MES in the year inferred, parse_all returns one range: the check-in
\* is the next D of MES on or after today, the check-out is N days later, N
\* the number of the "N noche(s)" of the message and 1 without one.
C25_DesdeNights ==
    pc = "done" =>
        \A h \in DesdeHeads, el \in BOOLEAN, d \in FormDays, m \in FormMonths, n \in FormNights :
            (/\ text = DesdeText(h, el, d, m, n)
             /\ ValidDate(infer_year_and_month(d, MONTH_NAMES(m), today).year, MONTH_NAMES(m), d)) =>
                LET checkin == NextOccurrence(d, MONTH_NAMES(m), today)
                IN  /\ ~parsed.raised
                    /\ parsed.ranges = <<[start |-> checkin,
                                          end |-> checkin + (IF n = NoNights THEN 1 ELSE n)]>>

-----------------------------------------------------------------------------
(* Specification of classify_intents_multi: a message of up to             *)
(* MaxClassifyPhrases phrases, classified with and without dates.          *)

MaxClassifyPhrases == 2

ClassifyPhrases ==
    << <<W("hay"), W("WiFi")>>,
       <<W("gimnasio")>>,
       <<W("aire"), W("acondicionado")>>,
       <<W("está"), W("disponible")>>,
       <<W("hay"), W("lugar")>>,
       <<W("puedo"), W("reservar")>>,
       <<W("precio"), W("para"), W("el"), W("finde")>>,
       <<W("cuánto"), W("sale")>>,
       <<W("check"), W("in")>>,
       <<W("salida")>>,
       <<W("dónde"), W("comer")>>,
       <<W("cancelación")>>,
       <<W("hola")>>,
       <<DM(2, 2)>> >>

ClassifyTexts ==
    {Flatten([i \in 1..Len(f) |-> ClassifyPhrases[f[i]]]) :
        f \in UNION {[1..k -> 1..Len(ClassifyPhrases)] : k \in 0..MaxClassifyPhrases}}

InitClassify ==
    /\ pc = "idle"
    /\ text \in ClassifyTexts
    /\ has_dates \in BOOLEAN
    /\ intents = {}
    /\ today = 0
    /\ parsed = NotParsed
    /\ day = 0
    /\ month = None
    /\ inferred = [year |-> 0, month |-> 0]
    /\ NoIcal
    /\ NoEvaluator
    /\ NoValidator
    /\ NoGenerator
    /\ NoPipeline

Classify ==
    /\ pc = "idle"
    /\ intents' = classify_intents_multi(text, has_dates)
    /\ pc' = "done"
    /\ UNCHANGED <<parser_vars, has_dates, ical_vars, evaluator_vars, validator_vars, generator_vars, pipeline_vars>>

NextClassify == Classify

SpecClassify == InitClassify /\ [][NextClassify]_vars

PrecioParaElFinde == <<W("precio"), W("para"), W("el"), W("finde")>>

\* C8: the set classify_intents_multi returns never holds both pricing and
\* availability: pricing only when has_dates is false, availability only when
\* has_dates is true; "precio para el finde" with dates gives availability
\* and not pricing.
C8_PricingExcludesAvailability ==
    pc = "done" =>
        /\ ~({"pricing", "availability"} \subseteq intents)
        /\ "pricing" \in intents => ~has_dates
        /\ "availability" \in intents => has_dates
        /\ (text = PrecioParaElFinde /\ has_dates)
               => ("availability" \in intents /\ "pricing" \notin intents)

\* a price question that came with dates was classified
C8_Witness ==
    /\ pc = "done"
    /\ has_dates
    /\ pricing_patterns(normalize(text))
    /\ "availability" \in intents

\* C9: classify_intents_multi returns a non-empty set of labels of the fixed
\* enumeration, and "other" is in it exactly when no other label is.
C9_NonEmptyOtherAlone ==
    pc = "done" =>
        /\ intents # {}
        /\ intents \subseteq IntentLabels
        /\ "other" \in intents <=> (intents \ {"other"} = {})

\* a message with no keyword and no dates got "other"
C9_Witness ==
    /\ pc = "done"
    /\ intents = {"other"}
    /\ text # <<>>

\* the text has a keyword of one of the labels looked for when dates are given
MatchesALabel(t) ==
    \/ amenities_patterns(t)
    \/ availability_patterns(t)
    \/ checkin_pattern(t)
    \/ checkout_pattern(t)
    \/ recommendations_pattern(t)
    \/ policy_pattern(t)

\* C21: with has_dates true and a text that matches no keyword of amenities,
\* availability, checkin, checkout, recommendations or policy,
\* classify_intents_multi returns exactly {availability}; availability is in
\* the result only when an availability keyword matched or no label had
\* matched when the availability rule ran (no amenity keyword).
C21_ImplicitAvailability ==
    (pc = "done" /\ has_dates) =>
        LET t == normalize(text)
        IN  /\ ~MatchesALabel(t) => intents = {"availability"}
            /\ "availability" \in intents
                   => (availability_patterns(t) \/ ~amenities_patterns(t))

\* a dated message with no keyword got the implicit label
C21_Witness ==
    /\ pc = "done"
    /\ has_dates
    /\ text # <<>>
    /\ ~MatchesALabel(normalize(text))
    /\ intents = {"availability"}
-----------------------------------------------------------------------------
(* Specification of is_available: a request over the days CalFirst ..      *)
(* CalFirst + MaxTime + 1 against a calendar of up to MaxEvents components *)
(* that start and end on the days CalFirst .. CalFirst + MaxTime.          *)

MaxTime == 3

MaxEvents == 2

CalFirst == Date(2023, 2, 1)

CalDays == CalFirst..(CalFirst + MaxTime)

VEvents ==
    {ev \in [has_start : {TRUE}, dtstart : CalDays, has_end : {TRUE}, dtend : CalDays,
             summary : {"Reserved"}] : ev.dtstart <= ev.dtend}
        \cup {VEventNoEnd(s, "Airbnb (Not available)") : s \in CalDays}
        \cup {VEventNoStart("Blocked")}

Calendars(n) == UNION {[1..k -> VEvents] : k \in 0..n}

InitAvail ==
    /\ pc = "idle"
    /\ HAS_RECURRING \in BOOLEAN
    /\ start_date \in CalFirst..(CalFirst + MaxTime + 1)
    /\ end_date \in start_date..(CalFirst + MaxTime + 1)
    /\ fetch = "not called"
    /\ cal = <<>>
    /\ busy = <<>>
    /\ ical_result = NoIcalResult
    /\ today = 0
    /\ text = <<>>
    /\ parsed = NotParsed
    /\ day = 0
    /\ month = None
    /\ inferred = [year |-> 0, month |-> 0]
    /\ NoClassifier
    /\ NoEvaluator
    /\ NoValidator
    /\ NoGenerator
    /\ NoPipeline

\* is_available; the calendar is read only when the request is well formed
IsAvailable ==
    /\ pc = "idle"
    /\ \E f \in {"ok"} \cup FetchErrors, c \in Calendars(MaxEvents) :
          /\ f \in FetchErrors => c = <<>>
          /\ end_date <= start_date => (f = "ok" /\ c = <<>>)
          /\ fetch' = IF end_date <= start_date THEN "not called" ELSE f
          /\ cal' = c
          /\ busy' = IF f = "ok" /\ end_date > start_date
                     THEN expand_busy_intervals(HAS_RECURRING, c, start_date - 1, end_date + 1)
                     ELSE <<>>
          /\ ical_result' = is_available(HAS_RECURRING, f, c, start_date, end_date)
    /\ pc' = "done"
    /\ UNCHANGED <<parser_vars, classifier_vars, HAS_RECURRING, start_date, end_date, evaluator_vars, validator_vars, generator_vars, pipeline_vars>>

NextAvail == IsAvailable

SpecAvail == InitAvail /\ [][NextAvail]_vars

\* the list expand_busy_intervals merged
AvailExpanded == Expanded(HAS_RECURRING, cal, start_date - 1, end_date + 1)

\* C10: for a list of busy events with start <= end, the list
\* expand_busy_intervals returns is sorted by start and consecutive intervals
\* are separated by a strict gap (next.start > previous.end).
C10_MergedSortedDisjoint ==
    (pc = "done" /\ fetch = "ok"
        /\ \A i \in 1..Len(AvailExpanded) : AvailExpanded[i].start <= AvailExpanded[i].end)
    => \A i \in 1..(Len(busy) - 1) :
           /\ busy[i].start <= busy[i + 1].start
           /\ busy[i + 1].start > busy[i].end

\* two events given out of order were merged into two intervals with a gap
C10_Witness ==
    /\ pc = "done"
    /\ fetch = "ok"
    /\ Len(busy) = 2
    /\ Len(AvailExpanded) = 2
    /\ AvailExpanded[1].start > AvailExpanded[2].start

\* C2: for a busy interval [s, e) and a request [e, r) with r > e, is_available
\* reports a conflict (available = false).
C2_BoundaryConflicts ==
    (/\ pc = "done"
     /\ fetch = "ok"
     /\ \E i \in 1..Len(busy) : busy[i].start < busy[i].end /\ busy[i].end = start_date)
    => ical_result.available = "False"

\* C2, amended: a busy event that ends on the day of check-in is no conflict:
\* when every busy event of the window ends on or before the check-in day or
\* starts on or after the check-out day, is_available reports no conflict and
\* available = true.
C2_BoundaryFree ==
    (/\ pc = "done"
     /\ fetch = "ok"
     /\ \A i \in 1..Len(AvailExpanded) :
            /\ AvailExpanded[i].start <= AvailExpanded[i].end
            /\ (AvailExpanded[i].end <= start_date \/ AvailExpanded[i].start >= end_date))
    => (ical_result.available = "True" /\ ical_result.conflicts = <<>>)

\* a request that checks in on the day a busy interval of one night or more ends
C2_Witness ==
    /\ pc = "done"
    /\ fetch = "ok"
    /\ \E i \in 1..Len(busy) : busy[i].start < busy[i].end /\ busy[i].end = start_date
    /\ ical_result.available = "True"

\* C11: two busy events whose boundaries touch (the end of one is the start of
\* the other) are coalesced by expand_busy_intervals: one merged interval
\* covers both, and when they are the whole list the result is the single
\* interval from the first start to the last end.
C11_AdjacentCoalesced ==
    (pc = "done" /\ fetch = "ok") =>
        \A i, j \in 1..Len(AvailExpanded) :
            (/\ i # j
             /\ AvailExpanded[i].start <= AvailExpanded[i].end
             /\ AvailExpanded[i].end = AvailExpanded[j].start
             /\ AvailExpanded[j].start <= AvailExpanded[j].end)
            => /\ \E k \in 1..Len(busy) :
                      /\ busy[k].start <= AvailExpanded[i].start
                      /\ AvailExpanded[j].end <= busy[k].end
               /\ Len(AvailExpanded) = 2
                      => (/\ Len(busy) = 1
                          /\ busy[1].start = AvailExpanded[i].start
                          /\ busy[1].end = AvailExpanded[j].end)

\* two events of one night or more that touch were merged into one interval
C11_Witness ==
    /\ pc = "done"
    /\ fetch = "ok"
    /\ Len(AvailExpanded) = 2
    /\ AvailExpanded[1].start < AvailExpanded[1].end
    /\ AvailExpanded[1].end = AvailExpanded[2].start
    /\ AvailExpanded[2].start < AvailExpanded[2].end
    /\ Len(busy) = 1
    /\ busy[1].start = AvailExpanded[1].start
    /\ busy[1].end = AvailExpanded[2].end

\* the merged list has the bounds of the event list
SameBounds(merged, events) ==
    /\ Len(merged) = Len(events)
    /\ \A i \in 1..Len(events) :
           merged[i].start = events[i].start /\ merged[i].end = events[i].end

\* C12: the merge applied to an event list that is sorted by start and pairwise
\* disjoint as half-open intervals returns the same intervals (same number,
\* same bounds).
C12_IdempotentOnDisjoint ==
    (/\ pc = "done"
     /\ fetch = "ok"
     /\ \A i \in 1..Len(AvailExpanded) : AvailExpanded[i].start <= AvailExpanded[i].end
     /\ \A i \in 1..(Len(AvailExpanded) - 1) :
            /\ AvailExpanded[i].start <= AvailExpanded[i + 1].start
            /\ AvailExpanded[i].end <= AvailExpanded[i + 1].start)
    => SameBounds(busy, AvailExpanded)

\* C12, amended: the merge applied to an event list that is sorted by start
\* with a strict gap between consecutive events (next.start > previous.end),
\* as its own output is, returns the same intervals (same number, same
\* bounds); events that touch are coalesced instead.
C12_IdempotentOnGapped ==
    (/\ pc = "done"
     /\ fetch = "ok"
     /\ \A i \in 1..Len(AvailExpanded) : AvailExpanded[i].start <= AvailExpanded[i].end
     /\ \A i \in 1..(Len(AvailExpanded) - 1) :
            AvailExpanded[i].end < AvailExpanded[i + 1].start)
    => SameBounds(busy, AvailExpanded)

\* two events in order with a gap between them came out as they were
C12_Witness ==
    /\ pc = "done"
    /\ fetch = "ok"
    /\ Len(AvailExpanded) = 2
    /\ AvailExpanded[1].start < AvailExpanded[1].end
    /\ AvailExpanded[1].end < AvailExpanded[2].start
    /\ AvailExpanded[2].start < AvailExpanded[2].end
    /\ SameBounds(busy, AvailExpanded)

\* C13: when the fetch succeeds, the conflicts is_available reports are exactly
\* the merged busy intervals b with start_date < b.end and b.start < end_date,
\* in merged order, and available is true if and only if there is none.
C13_ConflictsExact ==
    (pc = "done" /\ fetch = "ok" /\ ~ical_result.raised) =>
        LET Overlapping(b) == start_date < b.end /\ b.start < end_date
            expected == SelectSeq(busy, Overlapping)
        IN  /\ SameBounds(ical_result.conflicts, expected)
            /\ ical_result.available \in {"True", "False"}
            /\ (ical_result.available = "True") <=> (expected = <<>>)

\* of two merged intervals one is a conflict and the other, which ends on the
\* day of check-in, is not
C13_Witness ==
    /\ pc = "done"
    /\ fetch = "ok"
    /\ Len(busy) = 2
    /\ busy[1].end = start_date
    /\ Len(ical_result.conflicts) = 1
    /\ ical_result.conflicts[1].start = busy[2].start
    /\ ical_result.available = "False"

\* every event that was merged has start < end
ProperEvents == \A i \in 1..Len(AvailExpanded) : AvailExpanded[i].start < AvailExpanded[i].end

\* the time t lies in an interval of the list b
Covers(b, t) == \E i \in 1..Len(b) : b[i].start <= t /\ t < b[i].end

\* the events of the calendar that have a start, unmerged
RawEvents ==
    LET Started(ev) == ev.has_start
        started == SelectSeq(cal, Started)
    IN  [i \in 1..Len(started) |-> BusyOf(started[i])]

\* C28: for events with start < end, a time lies in a merged interval that
\* expand_busy_intervals returns exactly when it lies in one of the events
\* merged, and the availability is_available computes from the merged
\* intervals is the one the unmerged events give.
C28_MergePreservesCoverage ==
    (pc = "done" /\ fetch = "ok" /\ end_date > start_date /\ ProperEvents) =>
        /\ \A t \in (CalFirst - 2)..(CalFirst + MaxTime + 2) :
               Covers(busy, t) <=> Covers(AvailExpanded, t)
        /\ (\A i \in 1..Len(RawEvents) : RawEvents[i].start < RawEvents[i].end) =>
               ((ical_result.available = "True")
                    <=> ~\E i \in 1..Len(RawEvents) : Overlaps(start_date, end_date, RawEvents[i]))

\* an event inside another was merged with it, and the request is refused
C28_Witness ==
    /\ pc = "done"
    /\ fetch = "ok"
    /\ end_date > start_date
    /\ ProperEvents
    /\ Len(AvailExpanded) = 2
    /\ Len(busy) = 1
    /\ AvailExpanded[2].end < AvailExpanded[1].end
    /\ ical_result.available = "False"

-----------------------------------------------------------------------------
(* Specification of check_availability_robust: a message, a property and   *)
(* its calendar source, on each reference date of the window; the calendar *)
(* holds up to MaxEvalEvents components.                                   *)

MaxEvalEvents == 1

EvalTexts ==
    {<<>>,
     Phrases[3],
     Phrases[4],
     Phrases[9],
     Phrases[11] \o Phrases[11],
     Phrases[1] \o Phrases[16],
     Phrases[1] \o Phrases[18]}

InitEval ==
    /\ pc = "idle"
    /\ today \in ParseTodays
    /\ text \in EvalTexts
    /\ property_id \in {"", "RECOLETA-PATIO"}
    /\ ical_url \in {"", "https://calendar/ical/1.ics"}
    /\ HAS_RECURRING \in BOOLEAN
    /\ result = NoResult
    /\ parsed = NotParsed
    /\ day = 0
    /\ month = None
    /\ inferred = [year |-> 0, month |-> 0]
    /\ start_date = 0
    /\ end_date = 0
    /\ fetch = "not called"
    /\ cal = <<>>
    /\ busy = <<>>
    /\ ical_result = NoIcalResult
    /\ NoClassifier
    /\ NoValidator
    /\ NoGenerator
    /\ NoPipeline

\* check_availability_robust; fetch_calendar is called, and the calendar read,
\* only when no check rejected the request
CheckAvailability ==
    /\ pc = "idle"
    /\ \E reaches \in {ReachesCalendar(parse_all(text, today), property_id, ical_url, today)},
          f \in {"ok"} \cup FetchErrors, c \in Calendars(MaxEvalEvents) :
          /\ f \in FetchErrors => c = <<>>
          /\ ~reaches => (f = "ok" /\ c = <<>>)
          /\ fetch' = IF reaches THEN f ELSE "not called"
          /\ cal' = c
          /\ result' = check_availability_robust(text, property_id, ical_url, today,
                                                 HAS_RECURRING, f, c)
    /\ pc' = "done"
    /\ UNCHANGED <<today, text, parsed, day, month, inferred, classifier_vars,
                   HAS_RECURRING, start_date, end_date, busy, ical_result,
                   property_id, ical_url, validator_vars, generator_vars, pipeline_vars>>

NextEval == CheckAvailability

SpecEval == InitEval /\ [][NextEval]_vars

\* C3: when the calendar fetch or parse fails, check_availability_robust
\* returns a verdict whose available is None and whose message carries the
\* text of the fetch error; available is None in a verdict only in that case.
C3_FetchFailureReported ==
    pc = "done" =>
        /\ fetch \in FetchErrors =>
              /\ ~result.raised
              /\ result.available = "None"
              /\ result.message.err = fetch
        /\ (result.success /\ result.available = "None") => fetch \in FetchErrors

RejectionMessages ==
    {NeedProperty.fmt, CannotVerify("").fmt, NeedDates.fmt, CheckoutNotAfter.fmt,
     AlreadyPassed(0).fmt}

\* C6: the rejection checks are applied in the order property, calendar
\* source, no interval, checkout <= checkin, checkin < today; the first that
\* fails alone decides the message; a rejected request has success = false and
\* available = None, and the calendar is not fetched for it.
C6_RejectionOrder ==
    (pc = "done" /\ ~result.raised) =>
        LET p == parse_all(text, today)
            given == property_id # "" /\ ical_url # ""
            some == given /\ p.ranges # <<>>
        IN  /\ property_id = "" => result.message = NeedProperty
            /\ (property_id # "" /\ ical_url = "") => result.message = CannotVerify(property_id)
            /\ (given /\ p.ranges = <<>>) => result.message = NeedDates
            /\ (some /\ p.ranges[1].end <= p.ranges[1].start)
                   => result.message = CheckoutNotAfter
            /\ (some /\ p.ranges[1].end > p.ranges[1].start /\ p.ranges[1].start < today)
                   => result.message = AlreadyPassed(p.ranges[1].start)
            /\ result.message.fmt \in RejectionMessages
                   => (~result.success /\ result.available = "None" /\ fetch = "not called")
            /\ (some /\ p.ranges[1].end > p.ranges[1].start /\ p.ranges[1].start >= today)
                   => (result.message.fmt \notin RejectionMessages /\ fetch # "not called")

\* a request with no property, no calendar source and no dates was rejected
\* for the property
C6_Witness ==
    /\ pc = "done"
    /\ property_id = ""
    /\ ical_url = ""
    /\ parse_all(text, today).ranges = <<>>
    /\ result.message = NeedProperty

\* C16: no core operation terminates abnormally: for every text and reference
\* date parse_all returns a list and check_availability_robust returns a
\* result, whatever the days, months and night counts the text gives.
C16_NeverRaises ==
    pc = "done" => (~parse_all(text, today).raised /\ ~result.raised)

-----------------------------------------------------------------------------
(* Specification of _validate_multi_intent_response: a draft of up to      *)
(* MaxDraftPhrases sentences, the facts of a request and a set of intents. *)

MaxDraftPhrases == 2

DraftPhrases ==
    <<<<"H", "o", "l", "a", "!", " ">>,
      <<"L", "a", "m", "e", "n", "t", "a", "b", "l", "e", "m", "e", "n", "t", "e", " ", "n", "o",
        " ", "e", "s", "t", "á", " ", "d", "i", "s", "p", "o", "n", "i", "b", "l", "e", ".", " ">>,
      <<"L", "a", "m", "e", "n", "t", "o", " ", "i", "n", "f", "o", "r", "m", "a", "r", "t", "e",
        " ", "q", "u", "e", " ", "e", "s", "a", "s", " ", "f", "e", "c", "h", "a", "s", " ", "e",
        "s", "t", "á", "n", " ", "o", "c", "u", "p", "a", "d", "a", "s", ".", " ">>,
      <<"C", "o", "n", "f", "i", "r", "m", "o", " ", "q", "u", "e", " ", "e", "s", "t", "á", " ",
        "l", "i", "b", "r", "e", ".", " ">>,
      <<"T", "e", "n", "e", "m", "o", "s", " ", "W", "i", "F", "i", " ", "y", " ", "p", "i", "l",
        "e", "t", "a", ".", " ">>,
      <<"E", "l", " ", "p", "r", "e", "c", "i", "o", " ", "d", "e", "p", "e", "n", "d", "e", " ",
        "d", "e", " ", "l", "a", "s", " ", "f", "e", "c", "h", "a", "s", ".", " ">>,
      <<"G", "r", "a", "c", "i", "a", "s", " ", "p", "o", "r", " ", "e", "s", "c", "r", "i", "b",
        "i", "r", ".", " ">>>>

RECURSIVE DraftsOf(_)
DraftsOf(n) ==
    IF n = 0 THEN {<<>>}
    ELSE DraftsOf(n - 1)
         \cup {dr \o DraftPhrases[i] : dr \in DraftsOf(n - 1), i \in 1..Len(DraftPhrases)}

Drafts == DraftsOf(MaxDraftPhrases)

\* the facts the pipeline gives: a verified verdict, then the intents detected
FactAvailable ==
    <<"[", "V", "E", "R", "I", "F", "I", "C", "A", "D", "O", "_", "I", "C", "A", "L", "]", " ",
      "D", "I", "S", "P", "O", "N", "I", "B", "L", "E", " ", "d", "e", "l", " ", "1", "0", "/",
      "0", "1", "/", "2", "0", "2", "5", " ", "a", "l", " ", "1", "5", "/", "0", "1", "/", "2",
      "0", "2", "5", " ", "(", "5", " ", "n", "o", "c", "h", "e", "s", ")", ".">>

FactReserved ==
    <<"[", "V", "E", "R", "I", "F", "I", "C", "A", "D", "O", "_", "I", "C", "A", "L", "]", " ",
      "N", "O", " ", "D", "I", "S", "P", "O", "N", "I", "B", "L", "E", ".", " ", "H", "a", "y",
      " ", "u", "n", "a", " ", "r", "e", "s", "e", "r", "v", "a", " ", "d", "e", "l", " ", "2",
      "0", "2", "5", "-", "0", "1", "-", "1", "0", " ", "a", "l", " ", "2", "0", "2", "5", "-",
      "0", "1", "-", "1", "5", ".">>

FactNotAvailable ==
    <<"[", "V", "E", "R", "I", "F", "I", "C", "A", "D", "O", "_", "I", "C", "A", "L", "]", " ",
      "N", "O", " ", "D", "I", "S", "P", "O", "N", "I", "B", "L", "E", " ", "e", "n", " ", "e",
      "s", "a", "s", " ", "f", "e", "c", "h", "a", "s", ".">>

FactIntents ==
    <<"[", "I", "N", "T", "E", "N", "C", "I", "O", "N", "E", "S", "_", "D", "E", "T", "E", "C",
      "T", "A", "D", "A", "S", "]", " ", "a", "v", "a", "i", "l", "a", "b", "i", "l", "i", "t",
      "y">>

FactLists ==
    {<<>>, <<FactIntents>>, <<FactAvailable, FactIntents>>, <<FactReserved, FactIntents>>,
     <<FactNotAvailable, FactIntents>>, <<FactIntents, FactAvailable>>}

ValidatedIntents == SUBSET {"availability", "amenities", "pricing"} \cup {{"other"}}

InitValidate ==
    /\ pc = "idle"
    /\ draft \in Drafts
    /\ extra_facts \in FactLists
    /\ intents \in ValidatedIntents
    /\ validation = Valid
    /\ has_dates = FALSE
    /\ today = 0
    /\ text = <<>>
    /\ parsed = NotParsed
    /\ day = 0
    /\ month = None
    /\ inferred = [year |-> 0, month |-> 0]
    /\ NoIcal
    /\ NoEvaluator
    /\ NoGenerator
    /\ NoPipeline

Validate ==
    /\ pc = "idle"
    /\ validation' = _validate_multi_intent_response(draft, extra_facts, intents)
    /\ pc' = "done"
    /\ UNCHANGED <<parser_vars, classifier_vars, ical_vars, evaluator_vars, draft, extra_facts, generator_vars, pipeline_vars>>

NextValidate == Validate

SpecValidate == InitValidate /\ [][NextValidate]_vars

LamentablementeNoEstaDisponible ==
    <<"l", "a", "m", "e", "n", "t", "a", "b", "l", "e", "m", "e", "n", "t", "e", " ", "n", "o",
      " ", "e", "s", "t", "a", " ", "d", "i", "s", "p", "o", "n", "i", "b", "l", "e">>

\* C4: with availability among the intents, a verified fact "DISPONIBLE del ..."
\* and a draft that contains "lamentablemente no esta disponible",
\* _validate_multi_intent_response returns is_valid = false and a corrected
\* draft that contains the text of the fact without its [VERIFICADO_ICAL] tag.
C4_ContradictionRepaired ==
    (/\ pc = "done"
     /\ "availability" \in intents
     /\ has_available_fact(extra_facts)
     /\ Contains(draft_lower(draft), LamentablementeNoEstaDisponible))
    => /\ ~validation.is_valid
       /\ \E i \in 1..Len(extra_facts) :
              /\ Contains(extra_facts[i], DISPONIBLE_del)
              /\ Contains(validation.corrected, fact_clean(extra_facts[i]))

\* C17: for every non-empty set of intents, a fact "NO DISPONIBLE ..." with a
\* draft that has a positive availability phrase and no negative one fails
\* validation, and so does a fact "DISPONIBLE del ..." with a draft that has a
\* negative phrase and no positive one.
C17_SymmetricContradiction ==
    (pc = "done" /\ intents # {}) =>
        LET d == draft_lower(draft)
        IN  /\ (/\ has_not_available_fact(extra_facts)
                /\ draft_says_available(d)
                /\ ~draft_says_not_available(d)) => ~validation.is_valid
            /\ (/\ has_available_fact(extra_facts)
                /\ draft_says_not_available(d)
                /\ ~draft_says_available(d)) => ~validation.is_valid

\* C18: in the corrected draft the amenities paragraph is present only if the
\* amenities issue was flagged, and the pricing paragraph only if the pricing
\* issue was flagged; the paragraphs come in the order availability, amenities,
\* pricing, joined by blank lines and followed by the signature.
C18_DeferralOnlyIfFlagged ==
    (pc = "done" /\ ~validation.is_valid) =>
        LET d == draft_lower(draft)
            c == validation.corrected
            body == SubSeq(c, 1, Len(c) - Len(Signature))
        IN  /\ Contains(c, AmenitiesParagraph) => AmenitiesIssues(d, intents) # <<>>
            /\ Contains(c, PricingParagraph) => PricingIssues(d, intents) # <<>>
            /\ c = body \o Signature
            /\ (Contains(c, AmenitiesParagraph) /\ Contains(c, PricingParagraph))
                   => Contains(c, AmenitiesParagraph \o ParagraphBreak \o PricingParagraph)
            /\ (Contains(c, AvailabilityPrefix) /\ body # <<>>)
                   => SubSeq(body, 1, Len(AvailabilityPrefix)) = AvailabilityPrefix

Contradicts(d, extra_facts0) ==
    \/ has_available_fact(extra_facts0) /\ draft_says_not_available(d) /\ ~draft_says_available(d)
    \/ has_not_available_fact(extra_facts0) /\ draft_says_available(d) /\ ~draft_says_not_available(d)

Covered(d, intents0) ==
    /\ "amenities" \in intents0 => AnyIn(amenities_words, d)
    /\ "pricing" \in intents0 => AnyIn(pricing_words, d)

\* C19: for a non-empty draft, an amenities intent with no amenity keyword in
\* the draft, or a pricing intent with no pricing keyword in it, makes
\* validation fail; when every requested topic is covered and no availability
\* contradiction exists, validation succeeds with no corrected draft.
C19_TopicCoverage ==
    (pc = "done" /\ draft # <<>>) =>
        LET d == draft_lower(draft)
        IN  /\ ("amenities" \in intents /\ ~AnyIn(amenities_words, d)) => ~validation.is_valid
            /\ ("pricing" \in intents /\ ~AnyIn(pricing_words, d)) => ~validation.is_valid
            /\ (Covered(d, intents) /\ ~Contradicts(d, extra_facts))
                   => validation.is_valid /\ validation.corrected_is_none

C19_Witness ==
    /\ pc = "done"
    /\ draft # <<>>
    /\ intents = {"amenities", "pricing"}
    /\ AnyIn(amenities_words, draft_lower(draft))
    /\ ~AnyIn(pricing_words, draft_lower(draft))
    /\ ~validation.is_valid

C19_CoveredWitness ==
    /\ pc = "done"
    /\ draft # <<>>
    /\ intents = {"availability", "amenities", "pricing"}
    /\ has_available_fact(extra_facts)
    /\ Covered(draft_lower(draft), intents)
    /\ validation.is_valid

-----------------------------------------------------------------------------
(* Specification of generate_with_llm: an output of the model call with a  *)
(* draft of up to MaxLlmPhrases sentences and up to MaxCitations           *)
(* citations, the facts of a request and a set of intents.                 *)

MaxLlmPhrases == 1

MaxCitations == 7

\* a draft of white space only
Blank ==
    <<" ", "\n">>

IsoDate ==
    <<"2", "0", "2", "5", "-", "0", "1", "-", "1", "0">>

SlashDate ==
    <<"1", "0", "/", "0", "1", "/", "2", "0", "2", "5">>

RawIntent ==
    <<" ", "A", "v", "a", "i", "l", "a", "b", "i", "l", "i", "t", "y", " ">>

RawLanguage ==
    <<"E", "S">>

LlmDrafts == DraftsOf(MaxLlmPhrases) \cup {Blank}

Citation(i) == IF i = 1 THEN "kb:wifi" ELSE IF i = 2 THEN "kb:checkin" ELSE "kb:policy"

CitationLists == {[i \in 1..n |-> Citation(i)] : n \in {0, 1, MaxCitations - 1, MaxCitations}}

RawOutputs ==
    [has_draft : {TRUE}, draft : LlmDrafts, has_citations : {TRUE}, citations : CitationLists,
     has_intent : {TRUE}, intent : {RawIntent}, has_dates : {TRUE}, dates : {<<IsoDate, SlashDate>>},
     has_language : {TRUE}, language : {RawLanguage}]
    \cup [has_draft : BOOLEAN, draft : {DraftPhrases[3]}, has_citations : {FALSE}, citations : {<<>>},
          has_intent : {FALSE}, intent : {<<>>}, has_dates : {FALSE}, dates : {<<>>},
          has_language : {FALSE}, language : {<<>>}]

InitGenerate ==
    /\ pc = "idle"
    /\ raw_output \in RawOutputs
    /\ extra_facts \in FactLists
    /\ intents \in ValidatedIntents
    /\ response = NoResponse
    /\ draft = <<>>
    /\ validation = Valid
    /\ has_dates = FALSE
    /\ today = 0
    /\ text = <<>>
    /\ parsed = NotParsed
    /\ day = 0
    /\ month = None
    /\ inferred = [year |-> 0, month |-> 0]
    /\ NoIcal
    /\ NoEvaluator
    /\ NoPipeline

\* generate_with_llm, from the output of the model call on
Generate ==
    /\ pc = "idle"
    /\ draft' = OrDefault(raw_output.has_draft, raw_output.draft, <<>>)
    /\ validation' = _validate_multi_intent_response(draft', extra_facts, intents)
    /\ response' = generate_with_llm(raw_output, extra_facts, intents)
    /\ pc' = "done"
    /\ UNCHANGED <<parser_vars, classifier_vars, ical_vars, evaluator_vars, extra_facts, raw_output, pipeline_vars>>

NextGenerate == Generate

SpecGenerate == InitGenerate /\ [][NextGenerate]_vars

\* C15: whenever validation of the generated draft fails, the draft
\* generate_with_llm returns is the corrected draft in full, validation_passed
\* is false and the correction notice is the first citation.
C15_CorrectionSupersedes ==
    (pc = "done" /\ ~validation.is_valid) =>
        /\ response.draft = validation.corrected
        /\ ~response.validation_passed
        /\ Len(response.citations) >= 1
        /\ response.citations[1] = CorrectionNotice

\* a draft that denies availability against a fact that confirms it was
\* replaced, and the citations were already six or more
C15_Witness ==
    /\ pc = "done"
    /\ ~validation.is_valid
    /\ draft # <<>>
    /\ response.draft # draft
    /\ Len(raw_output.citations) >= 6
    /\ response.citations[1] = CorrectionNotice

-----------------------------------------------------------------------------
(* The request pipeline of app.py (lines 460-542): parse, classify,        *)
(* verify availability when dates were found, then write the draft.        *)

Digits == <<"0", "1", "2", "3", "4", "5", "6", "7", "8", "9">>

\* the decimal digits of n, zero-padded to w places: str(n) is Decimal(n, 1)
RECURSIVE Decimal(_, _)
Decimal(n, w) ==
    IF n < 10 /\ w <= 1 THEN <<Digits[n + 1]>>
    ELSE Decimal(n \div 10, w - 1) \o <<Digits[(n % 10) + 1]>>

\* d.strftime('%d/%m/%Y')
strftime(o) == Decimal(DayOf(o), 2) \o <<"/">> \o Decimal(MonthOf(o), 2) \o <<"/">> \o Decimal(YearOf(o), 4)

\* d.isoformat()[:10]
isoformat(o) == Decimal(YearOf(o), 4) \o <<"-">> \o Decimal(MonthOf(o), 2) \o <<"-">> \o Decimal(DayOf(o), 2)

\* the characters of a property id or of the text of an exception
Chars(str) ==
    CASE str = "" -> <<>>
      [] str = "RECOLETA-PATIO" -> <<"R", "E", "C", "O", "L", "E", "T", "A", "-", "P", "A", "T", "I", "O">>
      [] str = "MICRO-PARAGUAY-870" -> <<"M", "I", "C", "R", "O", "-", "P", "A", "R", "A", "G", "U", "A", "Y", "-", "8", "7", "0">>
      [] str = "end_date debe ser posterior a start_date" ->
            <<"e", "n", "d", "_", "d", "a", "t", "e", " ", "d", "e", "b", "e", " ", "s", "e", "r", " ",
              "p", "o", "s", "t", "e", "r", "i", "o", "r", " ", "a", " ", "s", "t", "a", "r", "t", "_",
              "d", "a", "t", "e">>
      [] str = "Error descargando calendario" ->
            <<"E", "r", "r", "o", "r", " ", "d", "e", "s", "c", "a", "r", "g", "a", "n", "d", "o", " ",
              "c", "a", "l", "e", "n", "d", "a", "r", "i", "o">>
      [] str = "Error parseando calendario" ->
            <<"E", "r", "r", "o", "r", " ", "p", "a", "r", "s", "e", "a", "n", "d", "o", " ", "c", "a",
              "l", "e", "n", "d", "a", "r", "i", "o">>

\* the text of a message: its format with the values in their places
message_text(m) ==
    CASE m.fmt = NoMessage.fmt -> <<>>
      [] m.fmt = NeedProperty.fmt ->
            <<"N", "e", "c", "e", "s", "i", "t", "o", " ", "s", "a", "b", "e", "r", " ", "a", " ", "q",
              "u", "e", " ", "p", "r", "o", "p", "i", "e", "d", "a", "d", " ", "t", "e", " ", "r", "e",
              "f", "e", "r", "i", "s", ".">>
      [] m.fmt = CannotVerify("").fmt ->
            <<"N", "o", " ", "p", "u", "e", "d", "o", " ", "v", "e", "r", "i", "f", "i", "c", "a", "r",
              " ", "d", "i", "s", "p", "o", "n", "i", "b", "i", "l", "i", "d", "a", "d", " ", "d", "e",
              " ">> \o Chars(m.pid) \o <<".">>
      [] m.fmt = NeedDates.fmt ->
            <<"N", "e", "c", "e", "s", "i", "t", "o", " ", "f", "e", "c", "h", "a", "s", " ", "d", "e",
              " ", "c", "h", "e", "c", "k", "-", "i", "n", " ", "y", " ", "c", "h", "e", "c", "k", "-",
              "o", "u", "t", ".">>
      [] m.fmt = CheckoutNotAfter.fmt ->
            <<"C", "h", "e", "c", "k", "-", "o", "u", "t", " ", "d", "e", "b", "e", " ", "s", "e", "r",
              " ", "p", "o", "s", "t", "e", "r", "i", "o", "r", " ", "a", " ", "c", "h", "e", "c", "k",
              "-", "i", "n", ".">>
      [] m.fmt = AlreadyPassed(0).fmt ->
            <<"L", "a", " ", "f", "e", "c", "h", "a", " ">> \o strftime(m.args[1]) \o <<" ", "y", "a", " ", "p", "a", "s", "o", ".">>
      [] m.fmt = Disponible(0, 0, 0).fmt ->
            <<"D", "I", "S", "P", "O", "N", "I", "B", "L", "E", " ", "d", "e", "l">> \o <<" ">> \o strftime(m.args[1])
                \o <<" ", "a", "l", " ">> \o strftime(m.args[2])
                \o <<" ", "(">> \o Decimal(m.args[3], 1) \o <<" ", "n", "o", "c", "h", "e">>
                \o (IF m.args[3] > 1 THEN <<"s">> ELSE <<>>) \o <<")", ".">>
      [] m.fmt = NoDisponibleReserva(0, 0).fmt ->
            <<"N", "O", " ", "D", "I", "S", "P", "O", "N", "I", "B", "L", "E", ".", " ", "H", "a", "y",
              " ", "u", "n", "a", " ", "r", "e", "s", "e", "r", "v", "a", " ", "d", "e", "l", " ">> \o isoformat(m.args[1])
                \o <<" ", "a", "l", " ">> \o isoformat(m.args[2]) \o <<".">>
      [] m.fmt = NoDisponible.fmt ->
            <<"N", "O", " ", "D", "I", "S", "P", "O", "N", "I", "B", "L", "E", " ", "e", "n", " ", "e",
              "s", "a", "s", " ", "f", "e", "c", "h", "a", "s", ".">>
      [] m.fmt = ErrorMessage("").fmt ->
            <<"E", "r", "r", "o", "r", ":", " ">> \o Chars(m.err)

IntentTexts ==
    <<[label |-> "amenities", chars |-> <<"a", "m", "e", "n", "i", "t", "i", "e", "s">>],
      [label |-> "availability", chars |-> <<"a", "v", "a", "i", "l", "a", "b", "i", "l", "i", "t", "y">>],
      [label |-> "checkin", chars |-> <<"c", "h", "e", "c", "k", "i", "n">>],
      [label |-> "checkout", chars |-> <<"c", "h", "e", "c", "k", "o", "u", "t">>],
      [label |-> "other", chars |-> <<"o", "t", "h", "e", "r">>],
      [label |-> "policy", chars |-> <<"p", "o", "l", "i", "c", "y">>],
      [label |-> "pricing", chars |-> <<"p", "r", "i", "c", "i", "n", "g">>],
      [label |-> "recommendations", chars |-> <<"r", "e", "c", "o", "m", "m", "e", "n", "d", "a", "t", "i", "o", "n", "s">>]>>

\* ", ".join(sorted(intents))
intents_str(intents0) ==
    LET In(l) == l.label \in intents0
        chosen == SelectSeq(IntentTexts, In)
    IN  Join([i \in 1..Len(chosen) |-> chosen[i].chars], <<",", " ">>)

INTENCIONES_DETECTADAS ==
    <<"[", "I", "N", "T", "E", "N", "C", "I", "O", "N", "E", "S", "_", "D", "E", "T", "E", "C",
      "T", "A", "D", "A", "S", "]">>

\* the verified fact is given only for a verdict reached with success
HandsFact_always(ar) == ar # <<>>

HandsFact(ar) == ar # <<>> /\ ar[1].success

\* extra_facts as the request builds it (lines 509-517)
request_facts(ar, intents0) ==
    (IF HandsFact(ar)
     THEN <<VERIFICADO_ICAL \o <<" ">> \o message_text(ar[1].message)>> ELSE <<>>)
    \o <<INTENCIONES_DETECTADAS \o <<" ">> \o intents_str(intents0)>>

\* get_ical_url: the calendar source of a property, from the environment
get_ical_url(pid, env) ==
    IF pid = "" THEN ""
    ELSE IF pid = "RECOLETA-PATIO" THEN env.ICAL_RECOLETA
    ELSE IF pid = "MICRO-PARAGUAY-870" THEN env.ICAL_PARAGUAY
    ELSE ""

TechnicalErrorDraft ==
    <<"D", "i", "s", "c", "u", "l", "p", "a", ",", " ", "h", "u", "b", "o", " ", "u", "n", " ",
      "e", "r", "r", "o", "r", " ", "t", "e", "c", "n", "i", "c", "o", ".", " ", "P", "o", "d",
      "r", "i", "a", "s", " ", "r", "e", "f", "o", "r", "m", "u", "l", "a", "r", " ", "t", "u",
      " ", "c", "o", "n", "s", "u", "l", "t", "a", "?", "\n", "\n", "S", "a", "l", "u", "d", "o",
      "s", ",", "\n", "E", "q", "u", "i", "p", "o", " ", "d", "e", " ", "A", "t", "e", "n", "c",
      "i", "o", "n">>

\* the draft written without the model, around the summary of the context
SimpleDraft(ctx_summary) ==
    <<"G", "r", "a", "c", "i", "a", "s", " ", "p", "o", "r", " ", "t", "u", " ", "c", "o", "n",
      "s", "u", "l", "t", "a", ".", "\n", "\n">> \o ctx_summary
        \o Signature

-----------------------------------------------------------------------------
(* Specification of the request pipeline.  pc follows the numbered steps   *)
(* of the script: "idle", "parsed", "classified", "verified", "done", and  *)
(* "raised" when parse_all ended the run with an exception.                *)

PipelineTexts ==
    {<<>>,
     Phrases[10],
     Phrases[10] \o Phrases[19],
     Phrases[19],
     Phrases[4] \o ClassifyPhrases[7],
     Phrases[17] \o Phrases[1],
     Phrases[1] \o Phrases[18]}

IcalEnvs == [ICAL_RECOLETA : {"", "https://calendar/ical/1.ics"}, ICAL_PARAGUAY : {""}]

PipelineCalendars ==
    {<<>>} \cup {<<ev>> : ev \in {e \in VEvents : e.has_start /\ e.has_end
                                        /\ e.dtstart = CalFirst + 1 /\ e.dtend = CalFirst + 2}}

PipelineOutputs ==
    {NoRawOutput}
        \cup {[NoRawOutput EXCEPT !.has_draft = TRUE, !.draft = d,
                                  !.has_citations = TRUE, !.citations = <<Citation(1)>>] :
                 d \in {Blank, DraftPhrases[3], DraftPhrases[4], DraftPhrases[5]}}

ContextSummaries == {<<>>, <<"W", "i", "F", "i", ".", ".", ".">>}

InitPipeline ==
    /\ pc = "idle"
    /\ text \in PipelineTexts
    /\ today \in ParseTodays
    /\ property_id \in {"", "RECOLETA-PATIO", "MICRO-PARAGUAY-870"}
    /\ HAS_RECURRING \in BOOLEAN
    /\ use_llm \in BOOLEAN
    /\ parsed = NotParsed
    /\ day = 0
    /\ month = None
    /\ inferred = [year |-> 0, month |-> 0]
    /\ NoClassifier
    /\ start_date = 0
    /\ end_date = 0
    /\ fetch = "not called"
    /\ cal = <<>>
    /\ busy = <<>>
    /\ ical_result = NoIcalResult
    /\ ical_url = ""
    /\ result = NoResult
    /\ NoValidator
    /\ NoGenerator
    /\ availability_result = <<>>
    /\ validation_warning = FALSE
    /\ output = <<>>

\* 1) parse_all on the message, when the message is not blank; an exception
\* of the parser ends the run
ParseDates ==
    /\ pc = "idle"
    /\ text # <<>>
    /\ parsed' = parse_all(text, today)
    /\ pc' = IF parsed'.raised THEN "raised" ELSE "parsed"
    /\ UNCHANGED <<today, day, month, inferred, text, classifier_vars, ical_vars, evaluator_vars,
                   validator_vars, generator_vars, pipeline_vars>>

\* has_dates = len(date_ranges) > 0
HasDates(ranges) == Len(ranges) > 0

\* 2) the classifier, told whether the parser found a range
ClassifyIntents ==
    /\ pc = "parsed"
    /\ has_dates' = HasDates(parsed.ranges)
    /\ intents' = classify_intents_multi(text, has_dates')
    /\ pc' = "classified"
    /\ UNCHANGED <<parser_vars, ical_vars, evaluator_vars, validator_vars, generator_vars,
                   pipeline_vars>>

\* 4) check_availability_robust when dates were found; it parses the same
\* message on the same date again, which gives parsed
VerifyAvailability ==
    /\ pc = "classified"
    /\ has_dates
    /\ \E env \in IcalEnvs, f \in {"ok"} \cup FetchErrors, c \in PipelineCalendars :
          LET url == get_ical_url(property_id, env)
              reaches == ReachesCalendar(parsed, property_id, url, today)
          IN  /\ f \in FetchErrors => c = <<>>
              /\ ~reaches => (f = "ok" /\ c = <<>>)
              /\ ical_url' = url
              /\ fetch' = IF reaches THEN f ELSE "not called"
              /\ cal' = c
              /\ result' = Evaluate(parsed, property_id, url, today, HAS_RECURRING, f, c)
    /\ availability_result' = <<result'>>
    /\ pc' = "verified"
    /\ UNCHANGED <<parser_vars, classifier_vars, HAS_RECURRING, start_date, end_date, busy,
                   ical_result, property_id, validator_vars, generator_vars, use_llm,
                   validation_warning, output>>

\* 4) without dates the verdict stays None
SkipAvailability ==
    /\ pc = "classified"
    /\ ~has_dates
    /\ availability_result' = <<>>
    /\ pc' = "verified"
    /\ UNCHANGED <<parser_vars, classifier_vars, ical_vars, evaluator_vars, validator_vars,
                   generator_vars, use_llm, validation_warning, output>>

\* 5) the facts, then generate_with_llm with them, the model call answering
GenerateDraft ==
    /\ pc = "verified"
    /\ use_llm
    /\ extra_facts' = request_facts(availability_result, intents)
    /\ \E raw \in PipelineOutputs :
          /\ raw_output' = raw
          /\ draft' = OrDefault(raw.has_draft, raw.draft, <<>>)
          /\ validation' = _validate_multi_intent_response(draft', extra_facts', intents)
          /\ response' = generate_with_llm(raw, extra_facts', intents)
    /\ output' = response'.draft
    /\ validation_warning' = ~response'.validation_passed
    /\ pc' = "done"
    /\ UNCHANGED <<parser_vars, classifier_vars, ical_vars, evaluator_vars, use_llm,
                   availability_result>>

\* 5) the model call raised: the facts were built, the draft is the apology
GenerateFails ==
    /\ pc = "verified"
    /\ use_llm
    /\ extra_facts' = request_facts(availability_result, intents)
    /\ output' = TechnicalErrorDraft
    /\ pc' = "done"
    /\ UNCHANGED <<parser_vars, classifier_vars, ical_vars, evaluator_vars, draft, validation,
                   generator_vars, use_llm, availability_result, validation_warning>>

\* 5) without the model: the simple draft around the context found
WithoutLlm ==
    /\ pc = "verified"
    /\ ~use_llm
    /\ \E ctx_summary \in ContextSummaries : output' = SimpleDraft(ctx_summary)
    /\ pc' = "done"
    /\ UNCHANGED <<parser_vars, classifier_vars, ical_vars, evaluator_vars, validator_vars,
                   generator_vars, use_llm, availability_result, validation_warning>>

NextPipeline ==
    \/ ParseDates
    \/ ClassifyIntents
    \/ VerifyAvailability
    \/ SkipAvailability
    \/ GenerateDraft
    \/ GenerateFails
    \/ WithoutLlm

SpecPipeline == InitPipeline /\ [][NextPipeline]_vars

HandedFact == \E i \in 1..Len(extra_facts) : Contains(extra_facts[i], VERIFICADO_ICAL)

GeneratorInvoked == extra_facts # <<>>

\* C20: within one request the classifier runs after the date parser, with
\* has_dates = (the parser gave at least one interval); the evaluator runs
\* only when has_dates and has completed before the generator and its
\* validator are invoked; a verified fact is handed to them only if the
\* evaluator finished with success.
C20_PipelineOrder ==
    /\ pc \in {"idle", "parsed", "raised"} => /\ intents = {}
                                              /\ availability_result = <<>>
                                              /\ ~GeneratorInvoked
    /\ pc = "idle" => parsed = NotParsed
    /\ pc \in {"classified", "verified", "done"} =>
          /\ parsed = parse_all(text, today)
          /\ has_dates = (Len(parsed.ranges) > 0)
          /\ intents = classify_intents_multi(text, has_dates)
    /\ pc = "classified" => availability_result = <<>> /\ ~GeneratorInvoked
    /\ availability_result # <<>> => has_dates
    /\ pc \in {"verified", "done"} =>
          (has_dates => /\ availability_result # <<>>
                        /\ availability_result[1] = result
                        /\ result = check_availability_robust(text, property_id, ical_url, today,
                                                              HAS_RECURRING, fetch, cal))
    /\ GeneratorInvoked => pc = "done"
    /\ HandedFact => /\ availability_result # <<>>
                     /\ availability_result[1].success

C20_Witness ==
    /\ pc = "done"
    /\ has_dates
    /\ use_llm
    /\ availability_result # <<>>
    /\ availability_result[1].success
    /\ HandedFact
    /\ response # NoResponse

C20_NoFactWitness ==
    /\ pc = "done"
    /\ has_dates
    /\ availability_result # <<>>
    /\ ~availability_result[1].success
    /\ GeneratorInvoked
    /\ ~HandedFact

\* C27: the request hands a fact "NO DISPONIBLE ..." only when the calendar
\* was fetched and a busy interval overlaps the dates asked for; when the
\* fetch of the calendar fails it hands no fact of availability, neither
\* "DISPONIBLE del ..." nor "NO DISPONIBLE ...".
C27_UnavailableOnlyIfBusy ==
    (pc = "done" /\ GeneratorInvoked) =>
        /\ has_not_available_fact(extra_facts) =>
              /\ fetch = "ok"
              /\ Conflicts(result.checkin, result.checkout,
                           expand_busy_intervals(HAS_RECURRING, cal, result.checkin - 1,
                                                 result.checkout + 1)) # <<>>
        /\ fetch \in FetchErrors =>
              /\ ~has_available_fact(extra_facts)
              /\ ~has_not_available_fact(extra_facts)

=============================================================================
